---- MODULE Spec2Model ----
(***************************************************************************)
(* A model of the guide creator flow (src/src/guide_creator_flow/main.py)  *)
(* and of the helpers it calls.                                            *)
(*                                                                         *)
(* Text is a sequence of tokens.  A token is a piece of text that the      *)
(* regular expressions of the program treat as a unit: a newline, a blank, *)
(* a code fence, the word markdown, a hash sign, a word, or the text of a  *)
(* whole sentence.  Concatenation of strings is concatenation of           *)
(* sequences.                                                              *)
(***************************************************************************)
EXTENDS Integers, Sequences, FiniteSets, TLC

VARIABLES
    \* ---- the flow (GuideCreatorFlow and its GuideCreatorState) ----
    pc,                  \* the place the run has reached
    topic,               \* state.topic
    audience_level,      \* state.audience_level
    guide_outline,       \* state.guide_outline, None until the outline is parsed
    sections_content,    \* state.sections_content: section title -> cleaned text
    completed_sections,  \* the local list of write_and_compile_guide
    section_index,       \* the position of the loop over outline.sections
    crew_inputs,         \* the inputs of the crew call in flight, None if there is none
    crew_kickoffs,       \* every crew_inputs handed to kickoff so far
    crew_results,        \* every result.raw the crew has returned so far
    llm_calls,           \* the number of llm.call invocations so far
    llm_response,        \* what llm.call returned, None before
    files,               \* the files this run has written: path -> content
    result,              \* what write_and_compile_guide returned, None before
    error,               \* the exception that ended the run, None if there is none
    executed,            \* the flow methods started so far, in order
    audience_inputs,     \* every answer read by the audience prompt so far
    reprompts,           \* how often the hint after an invalid answer was printed
    clock,               \* time.time()
    current_step_start,  \* PerformanceTracker.current_step_start
    steps,               \* PerformanceTracker.metrics["steps"]
    total_estimated_cost, \* TokenCostEstimator.total_estimated_cost, in 10^-8 dollars
    call_count,          \* TokenCostEstimator.call_count
    progress_tracker,    \* the DetailedProgressTracker, None until the outline is parsed
    \* ---- clean_section_content on its own ----
    cl_in,      \* the text handed to the first call
    cl_out,     \* the result of clean_section_content(cl_in)
    cl_out2,    \* the result of clean_section_content(cl_out)
    cl_pc,      \* "input", "cleaned" or "recleaned"
    \* ---- kickoff() and the observability it sets up ----
    kickoff_pc,       \* "setup", "flow", "returned" or "raised"
    phoenix_setup,    \* how setup_phoenix_observability ended, "not run" before
    phoenix_enabled,  \* the local phoenix_enabled of kickoff, None before
    cleanup_calls,    \* the number of calls of cleanup_phoenix so far
    \* ---- create_filename on its own ----
    fn_topic,      \* the topic typed so far
    fn_audience,   \* the audience of the call, "" before the call
    fn_extension,  \* the extension of the call, "" before the call
    fn_name,       \* the filename returned, empty before the call
    \* ---- the trackers called on their own ----
    est_call,      \* the arguments of the last estimate_call_cost, None before
    est_return,    \* what it returned, in 10^-8 dollars, None before
    est_snapshot,  \* what the last get_total_estimate returned, None before
    tracker_log,   \* the calls of start_step and end_step so far, with their times
    \* ---- the monitor (monitor_guide_creation.py, run_with_monitoring.py) ----
    entry,            \* the entry point taken: run_monitor or run_with_monitoring
    main_pc,          \* the place of the main thread of run_with_monitoring
    display_pc,       \* the place of the thread that runs start_monitoring
    files_pc,         \* the place of the thread that runs _monitor_files
    processes_pc,     \* the place of the thread that runs _monitor_processes
    monitoring,       \* GuideCreationMonitor.monitoring
    api_calls,        \* GuideCreationMonitor.api_calls
    estimated_cost,   \* GuideCreationMonitor.estimated_cost, in 10^-8 dollars
    processed_files,  \* the local set processed_files of _monitor_files
    monitor_log,      \* how often each message was written to the monitor log
    output_dir,       \* the directory output/: file name -> content
    logs_dir,         \* the json files of the directory logs/: file name -> content
    pipeline_pc,      \* the place of the guide creation process
    pipeline_stem,    \* the name of its guide less the extension, None before
    stopped,          \* stop_monitoring has returned
    rounds_after_stop, \* per loop, the rounds run since then (2: two or more)
    \* ---- the usage report (check_openai_usage.py) ----
    usage_logs,       \* the directory logs/ the report reads, None if it is missing
    local_data,       \* what estimate_costs_from_logs returned, None before
    report_pc         \* "start", "printed" or the exception that ended the report

flowVars ==
    <<pc, topic, audience_level, guide_outline, sections_content,
      completed_sections, section_index, crew_inputs, crew_kickoffs,
      crew_results, llm_calls, llm_response, files, result, error, executed,
      audience_inputs, reprompts>>

trackerVars ==
    <<clock, current_step_start, steps, total_estimated_cost, call_count,
      progress_tracker>>

cleanVars == <<cl_in, cl_out, cl_out2, cl_pc>>

kickoffVars == <<kickoff_pc, phoenix_setup, phoenix_enabled, cleanup_calls>>

toolVars ==
    <<fn_topic, fn_audience, fn_extension, fn_name, est_call, est_return,
      est_snapshot, tracker_log>>

monitorVars ==
    <<entry, main_pc, display_pc, files_pc, processes_pc, monitoring,
      api_calls, estimated_cost, processed_files, monitor_log, output_dir,
      logs_dir, pipeline_pc, pipeline_stem, stopped, rounds_after_stop>>

usageVars == <<usage_logs, local_data, report_pc>>

vars ==
    <<flowVars, trackerVars, cleanVars, kickoffVars, toolVars, monitorVars,
      usageVars>>

(***************************************************************************)
(* Tokens                                                                  *)
(***************************************************************************)
NL == "\n"
SP == " "
\* three backticks, the marker of a code fence
FENCE == "<fence>"
MARKDOWN == "markdown"
HASH == "#"
WORD == "x"
\* sentences of the kind the writer agents append to their answers, one for
\* each pattern of lines 85-91; the last one is in upper case
META_MAINTAINS == "This guide section maintains consistency..."
META_ENHANCES == "This version enhances clarity."
META_PROVIDES == "This content provides an overview."
META_IMPROVED == "This improved section is ready."
META_HAS_BEEN == "The section has been revised."
META_HERE == "Here is the improved version:"
META_REVISION == "THIS REVISION"

MetaSentences ==
    {META_MAINTAINS, META_ENHANCES, META_PROVIDES, META_IMPROVED,
     META_HAS_BEEN, META_HERE, META_REVISION}

NoText == "(none)"

\* whitespace: what the class \s matches and what str.strip() removes
IsSpace(c) == c \in {SP, NL}

(***************************************************************************)
(* Helpers of the regular expressions                                      *)
(***************************************************************************)
\* ^ under re.MULTILINE: the start of the text or the place after a newline
AtLineStart(t, i) == i = 1 \/ t[i - 1] = NL

\* the tokens of pre stand in t from position i on
HasPrefixAt(t, i, pre) ==
    /\ i + Len(pre) - 1 <= Len(t)
    /\ \A k \in 1..Len(pre) : t[i + k - 1] = pre[k]

\* the greedy whitespace run from position i: the last position of the run (i - 1 if empty)
RECURSIVE SpaceRunEnd(_, _)
SpaceRunEnd(t, i) ==
    IF i <= Len(t) /\ IsSpace(t[i]) THEN SpaceRunEnd(t, i + 1) ELSE i - 1

\* the last newline of t[lo..hi], 0 if there is none
RECURSIVE LastNewline(_, _, _)
LastNewline(t, lo, hi) ==
    IF hi < lo THEN 0
    ELSE IF t[hi] = NL THEN hi
    ELSE LastNewline(t, lo, hi - 1)

\* the number of newlines of t[lo..hi]
RECURSIVE CountNewlines(_, _, _)
CountNewlines(t, lo, hi) ==
    IF hi < lo THEN 0
    ELSE (IF t[hi] = NL THEN 1 ELSE 0) + CountNewlines(t, lo, hi - 1)

\* re.sub(r'^<pre>\s*\n', '', t, flags=re.MULTILINE), scanning from i
RECURSIVE SubOpener(_, _, _, _)
SubOpener(t, pre, i, acc) ==
    IF i > Len(t) THEN acc
    ELSE IF AtLineStart(t, i) /\ HasPrefixAt(t, i, pre)
         THEN LET a == i + Len(pre)
                  j == SpaceRunEnd(t, a)
                  p == LastNewline(t, a, j)
              IN  IF p > 0 THEN SubOpener(t, pre, p + 1, acc)
                  ELSE SubOpener(t, pre, i + 1, Append(acc, t[i]))
         ELSE SubOpener(t, pre, i + 1, Append(acc, t[i]))

\* re.sub(r'\n<fence>\s*$', '', t, flags=re.MULTILINE), scanning from i
RECURSIVE SubCloser(_, _, _)
SubCloser(t, i, acc) ==
    IF i > Len(t) THEN acc
    ELSE IF t[i] = NL /\ HasPrefixAt(t, i + 1, <<FENCE>>)
         THEN LET a == i + 2
                  j == SpaceRunEnd(t, a)
                  p == LastNewline(t, a, j)
              IN  IF j = Len(t) THEN acc
                  ELSE IF p > 0 THEN SubCloser(t, p, acc)
                  ELSE SubCloser(t, i + 1, Append(acc, t[i]))
         ELSE SubCloser(t, i + 1, Append(acc, t[i]))

\* re.sub(r'\n\s*\n\s*\n', '\n\n', t), scanning from i
RECURSIVE SubBlankLines(_, _, _)
SubBlankLines(t, i, acc) ==
    IF i > Len(t) THEN acc
    ELSE IF t[i] = NL
         THEN LET j == SpaceRunEnd(t, i)
                  p == LastNewline(t, i, j)
              IN  IF CountNewlines(t, i, j) >= 3
                  THEN SubBlankLines(t, p + 1, acc \o <<NL, NL>>)
                  ELSE SubBlankLines(t, i + 1, Append(acc, t[i]))
         ELSE SubBlankLines(t, i + 1, Append(acc, t[i]))

\* str.strip()
RECURSIVE Strip(_)
Strip(t) ==
    IF t = <<>> THEN t
    ELSE IF IsSpace(t[1]) THEN Strip(Tail(t))
    ELSE IF IsSpace(t[Len(t)]) THEN Strip(SubSeq(t, 1, Len(t) - 1))
    ELSE t

\* str.split('\n'): the lines of t, at least one
RECURSIVE SplitLines(_, _, _)
SplitLines(t, i, cur) ==
    IF i > Len(t) THEN <<cur>>
    ELSE IF t[i] = NL THEN <<cur>> \o SplitLines(t, i + 1, <<>>)
    ELSE SplitLines(t, i + 1, Append(cur, t[i]))

\* '\n'.join(lines)
RECURSIVE JoinLines(_)
JoinLines(lines) ==
    IF lines = <<>> THEN <<>>
    ELSE IF Len(lines) = 1 THEN lines[1]
    ELSE lines[1] \o <<NL>> \o JoinLines(Tail(lines))

(***************************************************************************)
(* clean_section_content                                                   *)
(***************************************************************************)
meta_comment_patterns ==
    << "^This .*section.*maintains.*$",
       "^This .*version.*enhances.*$",
       "^This .*content.*provides.*$",
       "^This .*improved.*section.*$",
       "^The .*section.*has been.*$",
       "^Here.*improved.*version.*$",
       "^This .*revision.*$" >>

\* str.lower() of a token, of a character or of an answer typed at a prompt;
\* re.IGNORECASE folds case the same way
Lower(w) ==
    IF w = META_MAINTAINS THEN "this guide section maintains consistency..."
    ELSE IF w = META_ENHANCES THEN "this version enhances clarity."
    ELSE IF w = META_PROVIDES THEN "this content provides an overview."
    ELSE IF w = META_IMPROVED THEN "this improved section is ready."
    ELSE IF w = META_HAS_BEEN THEN "the section has been revised."
    ELSE IF w = META_HERE THEN "here is the improved version:"
    ELSE IF w = META_REVISION THEN "this revision"
    ELSE IF w = "A" THEN "a"
    ELSE IF w = "Intermediate" THEN "intermediate"
    ELSE IF w = "ADVANCED" THEN "advanced"
    ELSE w

\* the pattern, with case folded, matches the lower-case text w: the table
\* of the texts of the model
PatternMatches(pattern, w) ==
    \/ pattern = meta_comment_patterns[1]
         /\ w = "this guide section maintains consistency..."
    \/ pattern = meta_comment_patterns[2]
         /\ w = "this version enhances clarity."
    \/ pattern = meta_comment_patterns[3]
         /\ w = "this content provides an overview."
    \/ pattern = meta_comment_patterns[4]
         /\ w = "this improved section is ready."
    \/ pattern = meta_comment_patterns[5]
         /\ w = "the section has been revised."
    \/ pattern = meta_comment_patterns[6]
         /\ w = "here is the improved version:"
    \/ pattern = meta_comment_patterns[7]
         /\ w = "this revision"

\* re.match(pattern, line, re.IGNORECASE): the patterns are anchored at the
\* start of the line and end in .*$, so the first token decides
ReMatchIgnoreCase(pattern, line) ==
    /\ line # <<>>
    /\ PatternMatches(pattern, Lower(line[1]))

\* a slip: the line is matched as it is, not stripped
is_meta_comment_Unstripped(line) ==
    \E k \in 1..Len(meta_comment_patterns) :
        ReMatchIgnoreCase(meta_comment_patterns[k], line)

is_meta_comment(line) ==
    \E k \in 1..Len(meta_comment_patterns) :
        ReMatchIgnoreCase(meta_comment_patterns[k], Strip(line))

\* lines 78-81: the three fence substitutions
StripFences(content) ==
    LET c1 == SubOpener(content, <<FENCE, MARKDOWN>>, 1, <<>>)
        c2 == SubCloser(c1, 1, <<>>)
    IN  SubOpener(c2, <<FENCE>>, 1, <<>>)

\* lines 94-107: drop the meta-comment lines
DropMetaComments(content) ==
    LET lines == SplitLines(content, 1, <<>>)
        cleaned_lines == SelectSeq(lines, LAMBDA line : ~is_meta_comment(line))
    IN  JoinLines(cleaned_lines)

\* line 111: the first line is a level 1 heading
IsLevel1Heading(line) ==
    /\ HasPrefixAt(Strip(line), 1, <<HASH, SP>>)
    /\ ~HasPrefixAt(Strip(line), 1, <<HASH, HASH, SP>>)

\* lines 110-116: a level 1 heading in the first line becomes level 2
FixHeading(content) ==
    LET lines == SplitLines(Strip(content), 1, <<>>)
    IN  IF IsLevel1Heading(lines[1])
        THEN JoinLines(<<<<HASH>> \o lines[1]>> \o Tail(lines))
        ELSE JoinLines(lines)

\* a slip: the runs of blank lines are left as they are
CollapseBlankLines_KeepsRuns(content) == Strip(content)

\* lines 117-118
CollapseBlankLines(content) == Strip(SubBlankLines(content, 1, <<>>))

clean_section_content(content) ==
    CollapseBlankLines(FixHeading(DropMetaComments(StripFences(content))))

(***************************************************************************)
(* Values shared by the flow and its helpers                               *)
(***************************************************************************)
\* None, where the value is a record or a list
None == <<>>

\* None, where the value is a string
NoError == "None"

\* an empty dict; a dict is a function from its keys
EmptyDict == [k \in {} |-> <<>>]

\* d[k] = v
DictSet(d, k, v) ==
    [x \in (DOMAIN d) \cup {k} |-> IF x = k THEN v ELSE d[x]]

\* d.get(k, default)
DictGet(d, k, default) == IF k \in DOMAIN d THEN d[k] ELSE default

\* len() of a token: the fence stands for three backticks
CharLen(tok) == IF tok = FENCE THEN 3 ELSE Len(tok)

\* len() of a text
RECURSIVE TextLen(_)
TextLen(t) == IF t = <<>> THEN 0 ELSE CharLen(t[1]) + TextLen(Tail(t))

\* str.replace(old, new) on a text, scanning from i
RECURSIVE Replace(_, _, _, _)
Replace(t, old, new, i) ==
    IF i > Len(t) THEN <<>>
    ELSE IF HasPrefixAt(t, i, old)
         THEN new \o Replace(t, old, new, i + Len(old))
         ELSE <<t[i]>> \o Replace(t, old, new, i + 1)

\* t contains part as a substring
Contains(t, part) == \E i \in 1..(Len(t) + 1) : HasPrefixAt(t, i, part)

(***************************************************************************)
(* create_filename.  A topic is a sequence of characters.                  *)
(***************************************************************************)
\* the class \w of a str pattern: letters of any script, digits, underscore
IsWordChar(c) == c \in {"a", "A", "1", "_", "é"}

\* the class [\w\s-] of line 44: what the first substitution keeps
IsWordSpaceHyphen(c) == IsWordChar(c) \/ IsSpace(c) \/ c = "-"

\* the class [-\s] of line 45
IsHyphenSpace(c) == c \in {SP, NL, "-"}

\* line 45: every run of hyphens and whitespace becomes one hyphen
RECURSIVE CollapseHyphens(_)
CollapseHyphens(t) ==
    IF t = <<>> THEN <<>>
    ELSE IF IsHyphenSpace(t[1])
         THEN IF Len(t) > 1 /\ IsHyphenSpace(t[2])
              THEN CollapseHyphens(Tail(t))
              ELSE <<"-">> \o CollapseHyphens(Tail(t))
         ELSE <<t[1]>> \o CollapseHyphens(Tail(t))

\* str.rstrip('-')
RECURSIVE RStripHyphens(_)
RStripHyphens(t) ==
    IF t # <<>> /\ t[Len(t)] = "-"
    THEN RStripHyphens(SubSeq(t, 1, Len(t) - 1))
    ELSE t

\* str.lstrip('-')
RECURSIVE LStripHyphens(_)
LStripHyphens(t) ==
    IF t # <<>> /\ t[1] = "-" THEN LStripHyphens(Tail(t)) ELSE t

\* line 49
MaxSlugLen == 50

\* lines 44-50
SafeTopic(topic_) ==
    LET lowered == [k \in 1..Len(topic_) |-> Lower(topic_[k])]
        kept == SelectSeq(lowered, IsWordSpaceHyphen)
        stripped == LStripHyphens(RStripHyphens(CollapseHyphens(kept)))
    IN  IF Len(stripped) > MaxSlugLen
        THEN RStripHyphens(SubSeq(stripped, 1, MaxSlugLen))
        ELSE stripped

\* line 53
create_filename(topic_, audience, extension) ==
    SafeTopic(topic_) \o <<"-", audience, "-guide", ".", extension>>

(***************************************************************************)
(* PerformanceTracker, TokenCostEstimator, DetailedProgressTracker         *)
(***************************************************************************)
\* the price of 1000 tokens, in 10^-5 dollars
MODEL_PRICING ==
    [ gpt_4o      |-> [input |-> 250, output |-> 1000],
      gpt_4o_mini |-> [input |-> 15,  output |-> 60] ]

\* a slip: the quotient is rounded up
estimate_tokens_RoundsUp(n) == (n + 3) \div 4

\* estimate_tokens: len(text) // 4, for a text of n characters
estimate_tokens(n) == n \div 4

\* the cost estimate_call_cost computes, in 10^-8 dollars
CallCost(model, input_len, output_len) ==
    estimate_tokens(input_len) * MODEL_PRICING[model].input
    + estimate_tokens(output_len) * MODEL_PRICING[model].output

\* estimate_call_cost: what the call returns, in 10^-8 dollars
EstimateCallCostReturn(model, input_len, output_len) ==
    IF model \notin DOMAIN MODEL_PRICING THEN 0
    ELSE CallCost(model, input_len, output_len)

\* a slip: a call with a model that has no price is counted all the same
EstimateCallCost_CountsUnknownModel(model, input_len, output_len) ==
    /\ total_estimated_cost' =
          total_estimated_cost
          + EstimateCallCostReturn(model, input_len, output_len)
    /\ call_count' = call_count + 1

\* estimate_call_cost: the accumulator after the call
EstimateCallCost(model, input_len, output_len) ==
    IF model \notin DOMAIN MODEL_PRICING
    THEN /\ total_estimated_cost' = total_estimated_cost
         /\ call_count' = call_count
    ELSE /\ total_estimated_cost' =
                total_estimated_cost + CallCost(model, input_len, output_len)
         /\ call_count' = call_count + 1

\* a slip: the average is the total
TotalEstimate_NoDivision(cost, calls) ==
    [ total_estimated_cost |-> cost,
      total_api_calls |-> calls,
      average_cost_per_call |-> IF calls > 0 THEN <<cost, 1>> ELSE <<0, 1>> ]

\* get_total_estimate, with the accumulator as it is after this step
TotalEstimate(cost, calls) ==
    [ total_estimated_cost |-> cost,
      total_api_calls |-> calls,
      \* a fraction: <<numerator, denominator>>
      average_cost_per_call |-> IF calls > 0 THEN <<cost, calls>> ELSE <<0, 1>> ]

\* a slip: a marker that is set is kept
StartStep_KeepsOpenMarker ==
    current_step_start' =
        IF current_step_start # <<>> THEN current_step_start ELSE <<clock>>

\* start_step: the marker is set, whatever it was
StartStep == current_step_start' = <<clock>>

\* end_step: a record is appended and the marker cleared, if a marker is set
StepsAfterEnd(step_name, result_size) ==
    IF current_step_start # None
    THEN Append(steps, [name |-> step_name,
                        duration |-> clock - current_step_start[1],
                        result_size |-> result_size])
    ELSE steps

EndStep(step_name, result_size) ==
    /\ steps' = StepsAfterEnd(step_name, result_size)
    /\ current_step_start' = None

\* get_summary over a list of step records
GetSummary(recorded) ==
    [ total_steps |-> Len(recorded), steps |-> recorded ]

(***************************************************************************)
(* What the run reads from outside: the answers typed at the prompts, the  *)
(* responses of the outline LLM call, the results of the agent crew        *)
(***************************************************************************)
MaxSections == 2
MaxReprompts == 2

Topics == { <<>>, <<"A", "!", SP, "a">> }

AudienceAnswers == {"beginner", "Intermediate", "ADVANCED", "expert", ""}

Titles == {"Intro Basics", "Advanced Tips"}

Sections == {[title |-> t, description |-> "what it covers"] : t \in Titles}

SectionLists == UNION {[1..n -> Sections] : n \in 0..MaxSections}

OutlineDict(section_list) ==
    [ title |-> "The Guide",
      introduction |-> "Introduction text.",
      target_audience |-> "Learners.",
      sections |-> section_list,
      conclusion |-> "Conclusion text." ]

\* a response of llm.call: its length, whether json.loads accepts it, and the
\* value json.loads returns
LlmResponses ==
    { [chars |-> 17, json |-> FALSE, value |-> <<>>],
      [chars |-> 40, json |-> TRUE, value |-> [title |-> "The Guide"]],
      [chars |-> 120, json |-> TRUE,
       value |-> OutlineDict(<<[description |-> "a section without a title"]>>)] }
    \cup
    { [chars |-> 200 + 60 * Len(sl), json |-> TRUE, value |-> OutlineDict(sl)] :
        sl \in SectionLists }

\* the crew answers with markdown wrapped in a code fence ...
FencedResult ==
    <<FENCE, MARKDOWN, NL, HASH, SP, WORD, NL, WORD, NL, FENCE>>
\* ... or with a section followed by a remark about the section
RemarkResult ==
    <<HASH, HASH, SP, WORD, SP, WORD, NL, META_MAINTAINS>>

\* ... or with markdown in a plain fence, its heading at level 2 already,
\* and a newline after the fence that closes
FencedOther ==
    <<FENCE, NL, HASH, HASH, SP, WORD, SP, WORD, NL, WORD, NL, FENCE, NL>>

\* the answers wrapped in a code fence: opener, heading, body, closer
FencedResults == {FencedResult, FencedOther}

RawResults == FencedResults \cup {RemarkResult}

(***************************************************************************)
(* GuideCreatorFlow                                                        *)
(***************************************************************************)
AudienceLevels == {"beginner", "intermediate", "advanced"}

\* a slip: any answer that is not empty is taken as a level
IsValidAudience_AnyAnswer(audience) == audience # ""

\* line 148
IsValidAudience(audience) == audience \in AudienceLevels

\* GuideOutline(**outline_dict) accepts the dict: the required fields are
\* there and every section has its required fields
MatchesGuideOutline(d) ==
    /\ {"title", "introduction", "target_audience", "sections", "conclusion"}
           \subseteq DOMAIN d
    /\ \A k \in 1..Len(d.sections) :
           {"title", "description"} \subseteq DOMAIN d.sections[k]

\* lines 196-197: json.loads and the validation both succeed
OutlineParses(response) == response.json /\ MatchesGuideOutline(response.value)

\* lines 171-187: len(input_text) of the outline call without topic and level
OUTLINE_TEMPLATE_LEN == 515

OutlineInputLen == OUTLINE_TEMPLATE_LEN + TextLen(topic) + Len(audience_level)

\* lines 206-207
OutlinePath(topic_, audience) ==
    <<"output/">> \o Replace(create_filename(topic_, audience, "json"),
                             <<"-guide", ".", "json">>,
                             <<"-outline", ".", "json">>, 1)

\* lines 296-297
GuidePath(topic_, audience) ==
    <<"output/">> \o create_filename(topic_, audience, "md")

\* line 304: guide_filename.replace('.md', '')
Timestamp(topic_, audience) ==
    Replace(create_filename(topic_, audience, "md"), <<".", "md">>, <<>>, 1)

\* lines 86-89 and 305
MetricsPath(topic_, audience) ==
    <<"logs/">> \o Timestamp(topic_, audience) \o <<"_metrics", ".", "json">>

\* line 309
CostPath(topic_, audience) ==
    <<"logs/">> \o Timestamp(topic_, audience) \o <<"_cost_estimate", ".", "json">>

\* lines 239-246: the context built from the sections completed so far
RECURSIVE PreviousBlocks(_, _)
PreviousBlocks(completed, content) ==
    IF completed = <<>> THEN <<>>
    ELSE <<HASH, HASH, SP, completed[1], NL, NL>>
         \o DictGet(content, completed[1], <<>>) \o <<NL, NL>>
         \o PreviousBlocks(Tail(completed), content)

\* a slip: the context never accumulates
PreviousSectionsText_NeverAccumulates(completed, content) ==
    <<"No previous sections written yet.">>

PreviousSectionsText(completed, content) ==
    IF completed # <<>>
    THEN <<HASH, SP, "Previously Written Sections", NL, NL>>
         \o PreviousBlocks(completed, content)
    ELSE <<"No previous sections written yet.">>

\* lines 251-257
CrewInputs(section, audience, previous_sections_text) ==
    [ section_title |-> section.title,
      section_description |-> section.description,
      audience_level |-> audience,
      previous_sections |-> previous_sections_text,
      draft_content |-> <<>> ]

\* line 260: len(input_text)
SectionInputLen(section, previous_sections_text) ==
    Len(section.title) + 1 + Len(section.description) + 1
    + TextLen(previous_sections_text)

\* a slip: the text is stored under the description of the section
StoreSection_ByDescription(content, section, cleaned_content) ==
    DictSet(content, section.description, cleaned_content)

\* line 270: the cleaned text is stored under the title of the section
StoreSection(content, section, cleaned_content) ==
    DictSet(content, section.title, cleaned_content)

\* lines 288-290
RECURSIVE SectionBlocks(_, _)
SectionBlocks(section_list, content) ==
    IF section_list = <<>> THEN <<>>
    ELSE DictGet(content, section_list[1].title, <<>>) \o <<NL, NL>>
         \o SectionBlocks(Tail(section_list), content)

\* lines 284-285
GuideHead(outline) ==
    <<HASH, SP, outline.title, NL, NL>>
    \o <<HASH, HASH, SP, "Introduction", NL, NL, outline.introduction, NL, NL>>

\* line 293
GuideTail(outline) ==
    <<HASH, HASH, SP, "Conclusion", NL, NL, outline.conclusion, NL, NL>>

\* lines 284-293
GuideContent(outline, content) ==
    GuideHead(outline) \o SectionBlocks(outline.sections, content)
    \o GuideTail(outline)

\* a slip: the message does not name the file
ResultMessage_WithoutPath(guide_path) ==
    <<"Guide creation completed successfully.">>

\* line 323
ResultMessage(guide_path) ==
    <<"Guide creation completed successfully. File saved as: ">> \o guide_path

(***************************************************************************)
(* The cleaner applied to every short text, and applied again to its       *)
(* result                                                                  *)
(***************************************************************************)
MaxLen == 4

Alphabet == {NL, SP, FENCE, MARKDOWN, HASH, WORD} \cup MetaSentences

CleanInit ==
    /\ cl_in = <<>>
    /\ cl_out = NoText
    /\ cl_out2 = NoText
    /\ cl_pc = "input"

\* one more token of the raw text; a text holds one of the sentences, any
\* number of times, or none
TypeToken ==
    /\ cl_pc = "input"
    /\ Len(cl_in) < MaxLen
    /\ \E c \in Alphabet :
          /\ \A k \in 1..Len(cl_in) :
                cl_in[k] \in MetaSentences =>
                    c \in {cl_in[k]} \cup (Alphabet \ MetaSentences)
          /\ cl_in' = Append(cl_in, c)
    /\ UNCHANGED <<cl_out, cl_out2, cl_pc>>
    /\ UNCHANGED <<flowVars, trackerVars, kickoffVars, toolVars, monitorVars, usageVars>>

\* cleaned_content = clean_section_content(result.raw)
CleanOnce ==
    /\ cl_pc = "input"
    /\ cl_out' = clean_section_content(cl_in)
    /\ cl_pc' = "cleaned"
    /\ UNCHANGED <<cl_in, cl_out2>>
    /\ UNCHANGED <<flowVars, trackerVars, kickoffVars, toolVars, monitorVars, usageVars>>

\* the cleaner applied to text it has cleaned
CleanAgain ==
    /\ cl_pc = "cleaned"
    /\ cl_out2' = clean_section_content(cl_out)
    /\ cl_pc' = "recleaned"
    /\ UNCHANGED <<cl_in, cl_out>>
    /\ UNCHANGED <<flowVars, trackerVars, kickoffVars, toolVars, monitorVars, usageVars>>

CleanNext == TypeToken \/ CleanOnce \/ CleanAgain

(***************************************************************************)
(* The cleaner applied to every text of a few lines: what an agent writes  *)
(* is made of lines of these kinds                                         *)
(***************************************************************************)
MaxLines == 4

LineKinds ==
    { <<>>,                          \* an empty line
      <<SP>>,                        \* a line of whitespace
      <<WORD>>,                      \* a line of text
      <<SP, WORD>>,                  \* an indented line of text
      <<HASH, SP, WORD>>,            \* a level 1 heading
      <<HASH, HASH, SP, WORD>>,      \* a level 2 heading
      <<FENCE>>,                     \* a fence line
      <<FENCE, MARKDOWN>>,           \* the fence line that opens markdown
      <<SP, FENCE>>,                 \* an indented fence line
      <<META_MAINTAINS>> }           \* a remark about the section

\* one more line of the raw text (the first line typed is not empty)
TypeLine ==
    /\ cl_pc = "input"
    /\ CountNewlines(cl_in, 1, Len(cl_in)) + 1 < MaxLines \/ cl_in = <<>>
    /\ \E line \in LineKinds :
          cl_in' = IF cl_in = <<>> THEN line ELSE cl_in \o <<NL>> \o line
    /\ UNCHANGED <<cl_out, cl_out2, cl_pc>>
    /\ UNCHANGED <<flowVars, trackerVars, kickoffVars, toolVars, monitorVars, usageVars>>

LineNext == TypeLine \/ CleanOnce \/ CleanAgain


(***************************************************************************)
(* The run of the flow                                                     *)
(***************************************************************************)
FlowInit ==
    /\ pc = "get_user_input"
    /\ topic = <<>>
    /\ audience_level = ""
    /\ guide_outline = None
    /\ sections_content = EmptyDict
    /\ completed_sections = <<>>
    /\ section_index = 1
    /\ crew_inputs = None
    /\ crew_kickoffs = <<>>
    /\ crew_results = <<>>
    /\ llm_calls = 0
    /\ llm_response = None
    /\ files = EmptyDict
    /\ result = None
    /\ error = NoError
    /\ executed = <<>>
    /\ audience_inputs = <<>>
    /\ reprompts = 0

\* GuideCreatorFlow.__init__, lines 125-131
TrackerInit ==
    /\ clock = 1
    /\ current_step_start = None
    /\ steps = <<>>
    /\ total_estimated_cost = 0
    /\ call_count = 0
    /\ progress_tracker = None

\* kickoff() before the flow runs
KickoffInit ==
    /\ kickoff_pc = "setup"
    /\ phoenix_setup = "not run"
    /\ phoenix_enabled = None
    /\ cleanup_calls = 0

\* before any call of the helpers on their own
ToolInit ==
    /\ fn_topic = <<>>
    /\ fn_audience = ""
    /\ fn_extension = ""
    /\ fn_name = <<>>
    /\ est_call = None
    /\ est_return = None
    /\ est_snapshot = None
    /\ tracker_log = <<>>

\* os.getenv("PHOENIX_API_KEY"): not set, set to nothing, or set
ApiKeys == {"", "test_key_12345"}

\* phoenix_config.py, lines 31-68: what setup_phoenix_observability returns.
\* registers is whether register() and the two instrument() calls return;
\* when one raises, the except clause of line 64 returns False
setup_phoenix_observability(phoenix_api_key, registers) ==
    IF phoenix_api_key = "" THEN FALSE
    ELSE IF registers THEN TRUE
    ELSE FALSE

\* kickoff, line 328: phoenix_enabled = setup_phoenix_observability()
SetupPhoenix ==
    /\ kickoff_pc = "setup"
    /\ \E phoenix_api_key \in ApiKeys :
          \E registers \in (IF phoenix_api_key = "" THEN {TRUE} ELSE BOOLEAN) :
              /\ phoenix_enabled' =
                     <<setup_phoenix_observability(phoenix_api_key, registers)>>
              /\ phoenix_setup' =
                     IF phoenix_api_key = "" THEN "no key"
                     ELSE IF registers THEN "registered"
                     ELSE "registration raised"
    /\ kickoff_pc' = "flow"
    /\ UNCHANGED cleanup_calls
    /\ UNCHANGED <<flowVars, trackerVars, cleanVars, toolVars, monitorVars, usageVars>>

\* a slip: the cleanup is the last statement of the try block
KickoffFinally_CleanupOnlyOnSuccess ==
    /\ kickoff_pc = "flow"
    /\ pc \in {"done", "aborted"}
    /\ cleanup_calls' =
          IF phoenix_enabled = <<TRUE>> /\ pc = "done" THEN cleanup_calls + 1
          ELSE cleanup_calls
    /\ kickoff_pc' = IF pc = "done" THEN "returned" ELSE "raised"
    /\ UNCHANGED <<phoenix_setup, phoenix_enabled>>
    /\ UNCHANGED <<flowVars, trackerVars, cleanVars, toolVars, monitorVars, usageVars>>

\* kickoff, lines 332-343: the flow has returned or raised, the finally
\* clause runs, and kickoff returns or lets the exception through
KickoffFinally ==
    /\ kickoff_pc = "flow"
    /\ pc \in {"done", "aborted"}
    /\ cleanup_calls' =
          IF phoenix_enabled = <<TRUE>> THEN cleanup_calls + 1
          ELSE cleanup_calls
    /\ kickoff_pc' = IF pc = "done" THEN "returned" ELSE "raised"
    /\ UNCHANGED <<phoenix_setup, phoenix_enabled>>
    /\ UNCHANGED <<flowVars, trackerVars, cleanVars, toolVars, monitorVars, usageVars>>

\* get_user_input up to the audience prompt, lines 134-143
GetTopic ==
    /\ kickoff_pc = "flow"
    /\ pc = "get_user_input"
    /\ executed' = Append(executed, "get_user_input")
    /\ StartStep
    /\ \E t \in Topics : topic' = t
    /\ pc' = "audience_prompt"
    /\ clock' = clock + 1
    /\ UNCHANGED <<audience_level, guide_outline, sections_content,
                   completed_sections, section_index, crew_inputs,
                   crew_kickoffs, crew_results, llm_calls, llm_response, files, result,
                   error, audience_inputs, reprompts>>
    /\ UNCHANGED <<steps, total_estimated_cost, call_count, progress_tracker>>
    /\ UNCHANGED <<cleanVars, kickoffVars, toolVars, monitorVars, usageVars>>

\* one round of the loop of lines 146-152 that does not leave it
AudienceRejected ==
    /\ pc = "audience_prompt"
    /\ reprompts < MaxReprompts
    /\ \E answer \in AudienceAnswers :
          /\ ~IsValidAudience(Lower(answer))
          /\ audience_inputs' = Append(audience_inputs, answer)
    /\ reprompts' = reprompts + 1
    /\ clock' = clock + 1
    /\ UNCHANGED <<pc, topic, audience_level, guide_outline, sections_content,
                   completed_sections, section_index, crew_inputs,
                   crew_kickoffs, crew_results, llm_calls, llm_response, files, result,
                   error, executed>>
    /\ UNCHANGED <<current_step_start, steps, total_estimated_cost,
                   call_count, progress_tracker>>
    /\ UNCHANGED <<cleanVars, kickoffVars, toolVars, monitorVars, usageVars>>

\* the round that leaves the loop, and the rest of get_user_input,
\* lines 147-157
AudienceAccepted ==
    /\ pc = "audience_prompt"
    /\ \E answer \in AudienceAnswers :
          /\ IsValidAudience(Lower(answer))
          /\ audience_inputs' = Append(audience_inputs, answer)
          /\ audience_level' = Lower(answer)
    /\ EndStep("User Input Collection", 0)
    /\ pc' = "create_guide_outline"
    /\ clock' = clock + 1
    /\ UNCHANGED <<topic, guide_outline, sections_content,
                   completed_sections, section_index, crew_inputs,
                   crew_kickoffs, crew_results, llm_calls, llm_response, files, result,
                   error, executed, reprompts>>
    /\ UNCHANGED <<total_estimated_cost, call_count, progress_tracker>>
    /\ UNCHANGED <<cleanVars, kickoffVars, toolVars, monitorVars, usageVars>>

\* create_guide_outline up to the LLM call, lines 160-190
CallOutlineLlm ==
    /\ pc = "create_guide_outline"
    /\ executed' = Append(executed, "create_guide_outline")
    /\ StartStep
    /\ llm_calls' = llm_calls + 1
    /\ pc' = "llm_call"
    /\ clock' = clock + 1
    /\ UNCHANGED <<topic, audience_level, guide_outline, sections_content,
                   completed_sections, section_index, crew_inputs,
                   crew_kickoffs, crew_results, llm_response, files, result, error,
                   audience_inputs, reprompts>>
    /\ UNCHANGED <<steps, total_estimated_cost, call_count, progress_tracker>>
    /\ UNCHANGED <<cleanVars, kickoffVars, toolVars, monitorVars, usageVars>>

\* llm.call raises, line 190: the exception leaves the method
LlmRaises ==
    /\ pc = "llm_call"
    /\ error' = "ExternalCallFailure"
    /\ pc' = "aborted"
    /\ clock' = clock + 1
    /\ UNCHANGED <<topic, audience_level, guide_outline, sections_content,
                   completed_sections, section_index, crew_inputs,
                   crew_kickoffs, crew_results, llm_calls, llm_response, files, result,
                   executed, audience_inputs, reprompts>>
    /\ UNCHANGED <<current_step_start, steps, total_estimated_cost,
                   call_count, progress_tracker>>
    /\ UNCHANGED <<cleanVars, kickoffVars, toolVars, monitorVars, usageVars>>

\* a slip: a response that cannot be used makes the method call again
OutlineMalformed_Retried ==
    /\ pc = "llm_call"
    /\ \E response \in LlmResponses :
          /\ ~OutlineParses(response)
          /\ llm_response' = response
          /\ EstimateCallCost("gpt_4o_mini", OutlineInputLen, response.chars)
    /\ llm_calls' = llm_calls + 1
    /\ clock' = clock + 1
    /\ UNCHANGED <<pc, topic, audience_level, guide_outline, sections_content,
                   completed_sections, section_index, crew_inputs,
                   crew_kickoffs, crew_results, files, result, error,
                   executed, audience_inputs, reprompts>>
    /\ UNCHANGED <<current_step_start, steps, progress_tracker>>
    /\ UNCHANGED <<cleanVars, kickoffVars, toolVars, monitorVars, usageVars>>

\* a slip: the response is parsed before the cost is estimated, so a
\* rejected response is not counted
OutlineMalformed_NotCounted ==
    /\ pc = "llm_call"
    /\ \E response \in LlmResponses :
          /\ ~OutlineParses(response)
          /\ llm_response' = response
    /\ error' = "MalformedOutline"
    /\ pc' = "aborted"
    /\ clock' = clock + 1
    /\ UNCHANGED <<topic, audience_level, guide_outline, sections_content,
                   completed_sections, section_index, crew_inputs,
                   crew_kickoffs, crew_results, llm_calls, files, result,
                   executed, audience_inputs, reprompts>>
    /\ UNCHANGED <<current_step_start, steps, total_estimated_cost,
                   call_count, progress_tracker>>
    /\ UNCHANGED <<cleanVars, kickoffVars, toolVars, monitorVars, usageVars>>

\* llm.call returns a response that json.loads or GuideOutline rejects,
\* lines 190-197: the cost is estimated, then the exception leaves the method
OutlineMalformed ==
    /\ pc = "llm_call"
    /\ \E response \in LlmResponses :
          /\ ~OutlineParses(response)
          /\ llm_response' = response
          /\ EstimateCallCost("gpt_4o_mini", OutlineInputLen, response.chars)
    /\ error' = "MalformedOutline"
    /\ pc' = "aborted"
    /\ clock' = clock + 1
    /\ UNCHANGED <<topic, audience_level, guide_outline, sections_content,
                   completed_sections, section_index, crew_inputs,
                   crew_kickoffs, crew_results, llm_calls, files, result,
                   executed, audience_inputs, reprompts>>
    /\ UNCHANGED <<current_step_start, steps, progress_tracker>>
    /\ UNCHANGED <<cleanVars, kickoffVars, toolVars, monitorVars, usageVars>>

\* llm.call returns an outline, lines 190-220
OutlineParsed ==
    /\ pc = "llm_call"
    /\ \E response \in LlmResponses :
          /\ OutlineParses(response)
          /\ llm_response' = response
          /\ EstimateCallCost("gpt_4o_mini", OutlineInputLen, response.chars)
          /\ guide_outline' = response.value
          /\ progress_tracker' =
                [ total_sections |-> Len(response.value.sections),
                  completed_sections |-> 0,
                  current_section |-> "" ]
          /\ files' = DictSet(files, OutlinePath(topic, audience_level),
                              response.value)
          /\ EndStep("Guide Outline Creation", response.chars)
    /\ pc' = "write_and_compile_guide"
    /\ clock' = clock + 1
    /\ UNCHANGED <<topic, audience_level, sections_content,
                   completed_sections, section_index, crew_inputs,
                   crew_kickoffs, crew_results, llm_calls, result, error,
                   executed, audience_inputs, reprompts>>
    /\ UNCHANGED <<cleanVars, kickoffVars, toolVars, monitorVars, usageVars>>

\* write_and_compile_guide up to the loop, lines 223-229
EnterWriteAndCompile ==
    /\ pc = "write_and_compile_guide"
    /\ executed' = Append(executed, "write_and_compile_guide")
    /\ StartStep
    /\ completed_sections' = <<>>
    /\ section_index' = 1
    /\ pc' = "section_loop"
    /\ clock' = clock + 1
    /\ UNCHANGED <<topic, audience_level, guide_outline, sections_content,
                   crew_inputs, crew_kickoffs, crew_results, llm_calls, llm_response, files,
                   result, error, audience_inputs, reprompts>>
    /\ UNCHANGED <<steps, total_estimated_cost, call_count, progress_tracker>>
    /\ UNCHANGED <<cleanVars, kickoffVars, toolVars, monitorVars, usageVars>>

\* one round of the loop up to the crew call, lines 232-263
KickoffCrew ==
    /\ pc = "section_loop"
    /\ section_index <= Len(guide_outline.sections)
    /\ LET section == guide_outline.sections[section_index]
           previous_sections_text ==
               PreviousSectionsText(completed_sections, sections_content)
           inputs == CrewInputs(section, audience_level, previous_sections_text)
       IN  /\ progress_tracker' =
                 [progress_tracker EXCEPT !.current_section = section.title]
           /\ crew_inputs' = inputs
           /\ crew_kickoffs' = Append(crew_kickoffs, inputs)
    /\ pc' = "crew_call"
    /\ clock' = clock + 1
    /\ UNCHANGED <<topic, audience_level, guide_outline, sections_content,
                   completed_sections, section_index, crew_results, llm_calls, llm_response,
                   files, result, error, executed, audience_inputs, reprompts>>
    /\ UNCHANGED <<current_step_start, steps, total_estimated_cost, call_count>>
    /\ UNCHANGED <<cleanVars, kickoffVars, toolVars, monitorVars, usageVars>>

\* a slip: the exception is caught and the loop goes on with the next section
CrewRaises_Swallowed ==
    /\ pc = "crew_call"
    /\ error' = "ExternalCallFailure"
    /\ section_index' = section_index + 1
    /\ crew_inputs' = None
    /\ pc' = "section_loop"
    /\ clock' = clock + 1
    /\ UNCHANGED <<topic, audience_level, guide_outline, sections_content,
                   completed_sections, crew_kickoffs, crew_results, llm_calls,
                   llm_response, files, result, executed, audience_inputs,
                   reprompts>>
    /\ UNCHANGED <<current_step_start, steps, total_estimated_cost,
                   call_count, progress_tracker>>
    /\ UNCHANGED <<cleanVars, kickoffVars, toolVars, monitorVars, usageVars>>

\* kickoff raises, line 263: the exception leaves the loop and the method
CrewRaises ==
    /\ pc = "crew_call"
    /\ error' = "ExternalCallFailure"
    /\ pc' = "aborted"
    /\ clock' = clock + 1
    /\ UNCHANGED <<topic, audience_level, guide_outline, sections_content,
                   completed_sections, section_index, crew_inputs,
                   crew_kickoffs, crew_results, llm_calls, llm_response, files, result,
                   executed, audience_inputs, reprompts>>
    /\ UNCHANGED <<current_step_start, steps, total_estimated_cost,
                   call_count, progress_tracker>>
    /\ UNCHANGED <<cleanVars, kickoffVars, toolVars, monitorVars, usageVars>>

\* kickoff returns: the rest of the round, lines 263-277
CrewReturns ==
    /\ pc = "crew_call"
    /\ \E raw \in RawResults :
          LET section == guide_outline.sections[section_index]
              cleaned_content == clean_section_content(raw)
          IN  /\ EstimateCallCost("gpt_4o",
                     SectionInputLen(section, crew_inputs.previous_sections),
                     TextLen(raw))
              /\ crew_results' = Append(crew_results, raw)
              /\ sections_content' =
                     StoreSection(sections_content, section, cleaned_content)
              /\ completed_sections' = Append(completed_sections, section.title)
    /\ progress_tracker' =
          [progress_tracker EXCEPT
              !.completed_sections = progress_tracker.completed_sections + 1]
    /\ section_index' = section_index + 1
    /\ crew_inputs' = None
    /\ pc' = "section_loop"
    /\ clock' = clock + 1
    /\ UNCHANGED <<topic, audience_level, guide_outline, crew_kickoffs,
                   llm_calls, llm_response, files, result, error, executed, audience_inputs,
                   reprompts>>
    /\ UNCHANGED <<current_step_start, steps>>
    /\ UNCHANGED <<cleanVars, kickoffVars, toolVars, monitorVars, usageVars>>

\* after the loop: the guide is compiled and written, lines 279-323
CompileGuide ==
    /\ pc = "section_loop"
    /\ section_index > Len(guide_outline.sections)
    /\ LET guide_content == GuideContent(guide_outline, sections_content)
           guide_path == GuidePath(topic, audience_level)
           with_guide == DictSet(files, guide_path, guide_content)
           with_metrics ==
               DictSet(with_guide, MetricsPath(topic, audience_level),
                       GetSummary(steps))
           cost_data == TotalEstimate(total_estimated_cost, call_count)
       IN  /\ files' = DictSet(with_metrics, CostPath(topic, audience_level),
                               cost_data)
           /\ EndStep("Content Generation and Compilation",
                      TextLen(guide_content))
           /\ result' = ResultMessage(guide_path)
    /\ pc' = "done"
    /\ clock' = clock + 1
    /\ UNCHANGED <<topic, audience_level, guide_outline, sections_content,
                   completed_sections, section_index, crew_inputs,
                   crew_kickoffs, crew_results, llm_calls, llm_response, error, executed,
                   audience_inputs, reprompts>>
    /\ UNCHANGED <<total_estimated_cost, call_count, progress_tracker>>
    /\ UNCHANGED <<cleanVars, kickoffVars, toolVars, monitorVars, usageVars>>

(***************************************************************************)
(* create_filename called on its own, with every short topic and with      *)
(* topics around the length at which the name is cut                       *)
(***************************************************************************)
MaxTopicLen == 3

\* the characters a topic is typed from: letters, a digit, an underscore, a
\* letter that is not ASCII, punctuation, a blank, a hyphen
TopicChars == {"a", "A", "1", "_", "é", "!", SP, "-"}

\* a word two characters short of the length of line 49
LongWord == [k \in 1..(MaxSlugLen - 2) |-> "a"]

Extensions == {"md", "json"}

\* one more character of the topic
TypeChar ==
    /\ fn_name = <<>>
    /\ \/ Len(fn_topic) < MaxTopicLen
       \/ /\ Len(fn_topic) >= Len(LongWord)
          /\ Len(fn_topic) < Len(LongWord) + MaxTopicLen
    /\ \E c \in TopicChars : fn_topic' = Append(fn_topic, c)
    /\ UNCHANGED <<fn_audience, fn_extension, fn_name, est_call, est_return,
                   est_snapshot, tracker_log>>
    /\ UNCHANGED <<flowVars, trackerVars, cleanVars, kickoffVars, monitorVars, usageVars>>

\* the topic starts with a long word
TypeLongWord ==
    /\ fn_name = <<>>
    /\ fn_topic = <<>>
    /\ fn_topic' = LongWord
    /\ UNCHANGED <<fn_audience, fn_extension, fn_name, est_call, est_return,
                   est_snapshot, tracker_log>>
    /\ UNCHANGED <<flowVars, trackerVars, cleanVars, kickoffVars, monitorVars, usageVars>>

\* filename = create_filename(topic, audience, extension)
CreateFilename ==
    /\ fn_name = <<>>
    /\ \E audience \in AudienceLevels, extension \in Extensions :
          /\ fn_audience' = audience
          /\ fn_extension' = extension
          /\ fn_name' = create_filename(fn_topic, audience, extension)
    /\ UNCHANGED <<fn_topic, est_call, est_return, est_snapshot, tracker_log>>
    /\ UNCHANGED <<flowVars, trackerVars, cleanVars, kickoffVars, monitorVars, usageVars>>

FilenameNext == TypeChar \/ TypeLongWord \/ CreateFilename

(***************************************************************************)
(* The TokenCostEstimator called on its own, in any order                  *)
(***************************************************************************)
MaxCalls == 3

\* the models a caller may name: the two of the price table and another
Models == {"gpt_4o", "gpt_4o_mini", "gpt_3_5_turbo"}

\* len() of the texts handed to estimate_call_cost
TextLengths == {0, 3, 4000, 4003}

\* cost = estimate_call_cost(model, input_text, output_text)
EstimateCall ==
    /\ call_count < MaxCalls
    /\ \E model \in Models, input_len \in TextLengths, output_len \in TextLengths :
          /\ EstimateCallCost(model, input_len, output_len)
          /\ est_return' =
                 <<EstimateCallCostReturn(model, input_len, output_len)>>
          /\ est_call' =
                 [ model |-> model,
                   input_len |-> input_len,
                   output_len |-> output_len,
                   \* the accumulator as the call found it
                   cost_before |-> total_estimated_cost,
                   count_before |-> call_count ]
    /\ UNCHANGED <<fn_topic, fn_audience, fn_extension, fn_name, est_snapshot,
                   tracker_log>>
    /\ UNCHANGED <<clock, current_step_start, steps, progress_tracker>>
    /\ UNCHANGED <<flowVars, cleanVars, kickoffVars, monitorVars, usageVars>>

\* cost_data = get_total_estimate()
GetTotalEstimate ==
    /\ est_snapshot' = TotalEstimate(total_estimated_cost, call_count)
    /\ UNCHANGED <<fn_topic, fn_audience, fn_extension, fn_name, est_call,
                   est_return, tracker_log>>
    /\ UNCHANGED <<flowVars, trackerVars, cleanVars, kickoffVars, monitorVars, usageVars>>

EstimatorNext == EstimateCall \/ GetTotalEstimate

(***************************************************************************)
(* The PerformanceTracker called on its own, in any order, as time passes  *)
(***************************************************************************)
MaxClock == 3
MaxTrackerCalls == 3

StepNames == {"A", "B"}

ResultSizes == {0, 120}

\* time.time() moves on
Tick ==
    /\ clock < MaxClock
    /\ clock' = clock + 1
    /\ UNCHANGED <<current_step_start, steps, total_estimated_cost, call_count,
                   progress_tracker>>
    /\ UNCHANGED <<flowVars, cleanVars, kickoffVars, toolVars, monitorVars, usageVars>>

\* performance_tracker.start_step(step_name)
TrackerStartStep ==
    /\ Len(tracker_log) < MaxTrackerCalls
    /\ StartStep
    /\ \E step_name \in StepNames :
          tracker_log' =
              Append(tracker_log,
                     [op |-> "start_step", at |-> clock, step_name |-> step_name,
                      result_size |-> 0])
    /\ UNCHANGED <<fn_topic, fn_audience, fn_extension, fn_name, est_call,
                   est_return, est_snapshot>>
    /\ UNCHANGED <<clock, steps, total_estimated_cost, call_count,
                   progress_tracker>>
    /\ UNCHANGED <<flowVars, cleanVars, kickoffVars, monitorVars, usageVars>>

\* performance_tracker.end_step(step_name, result_size)
TrackerEndStep ==
    /\ Len(tracker_log) < MaxTrackerCalls
    /\ \E step_name \in StepNames, result_size \in ResultSizes :
          /\ EndStep(step_name, result_size)
          /\ tracker_log' =
                 Append(tracker_log,
                        [op |-> "end_step", at |-> clock, step_name |-> step_name,
                         result_size |-> result_size])
    /\ UNCHANGED <<fn_topic, fn_audience, fn_extension, fn_name, est_call,
                   est_return, est_snapshot>>
    /\ UNCHANGED <<clock, total_estimated_cost, call_count, progress_tracker>>
    /\ UNCHANGED <<flowVars, cleanVars, kickoffVars, monitorVars, usageVars>>

TrackerNext == Tick \/ TrackerStartStep \/ TrackerEndStep

(***************************************************************************)
(* The monitor (monitor_guide_creation.py), started on its own or by       *)
(* run_with_monitoring, and the guide creation process it watches          *)
(***************************************************************************)
\* the content of a file that open(path, 'w') has created and json.dump has
\* not yet filled: json.load rejects it
EmptyFile == [json |-> FALSE, value |-> <<>>]

\* the content of a file that holds the JSON text of data
JsonFile(data) == [json |-> TRUE, value |-> data]

\* create_filename("A! a", "beginner") and create_filename("Metrics",
\* "beginner"), each less its extension: the stems of the names a run writes
GuideStems ==
    { Timestamp(<<"A", "!", SP, "a">>, "beginner"),
      <<"metrics", "-", "beginner", "-guide">> }

\* main.py, lines 206-207, 296-297, 304-305 and 309: the names of the files
OutlineName(stem) ==
    Replace(stem \o <<".", "json">>, <<"-guide", ".", "json">>,
            <<"-outline", ".", "json">>, 1)

GuideName(stem) == stem \o <<".", "md">>

MetricsName(stem) == stem \o <<"_metrics", ".", "json">>

CostName(stem) == stem \o <<"_cost_estimate", ".", "json">>

\* "metrics" in file_path.name, line 80
HasMetrics(name) ==
    \E k \in 1..Len(name) : name[k] \in {"metrics", "_metrics"}

\* logs_dir.glob("*.json"), line 79
IsJsonName(name) ==
    Len(name) >= 2 /\ name[Len(name) - 1] = "." /\ name[Len(name)] = "json"

\* what save_metrics writes at main.py:305: the summary of the two steps
\* ended by then
MetricsOfARun ==
    GetSummary(<< [name |-> "User Input Collection", duration |-> 1,
                   result_size |-> 0],
                  [name |-> "Guide Outline Creation", duration |-> 1,
                   result_size |-> 400] >>)

\* what get_total_estimate returns at main.py:308 after calls calls: one for
\* the outline and one for every section
CostOfARun(calls) ==
    TotalEstimate(CallCost("gpt_4o_mini", OUTLINE_TEMPLATE_LEN, 400)
                  + (calls - 1) * CallCost("gpt_4o", 400, 4000),
                  calls)

\* the loops of the monitor
MonitorLoops == {"display", "files", "processes"}

\* GuideCreationMonitor.__init__, lines 19-22, and the directories before a
\* run
MonitorInit ==
    /\ entry = "none"
    /\ main_pc = "none"
    /\ display_pc = "none"
    /\ files_pc = "none"
    /\ processes_pc = "none"
    /\ monitoring = FALSE
    /\ api_calls = 0
    /\ estimated_cost = 0
    /\ processed_files = {}
    /\ monitor_log = [output |-> EmptyDict, metrics |-> <<>>,
                      processes |-> FALSE]
    /\ output_dir = EmptyDict
    /\ logs_dir = EmptyDict
    /\ pipeline_pc = "not started"
    /\ pipeline_stem = None
    /\ stopped = FALSE
    /\ rounds_after_stop = [loop \in MonitorLoops |-> 0]

\* a round of a loop ends: it counts if stop_monitoring has returned
RoundsAfter(loop) ==
    IF stopped /\ rounds_after_stop[loop] < 2
    THEN [rounds_after_stop EXCEPT ![loop] = rounds_after_stop[loop] + 1]
    ELSE rounds_after_stop

\* run_monitor, lines 162-173: the main thread is about to call
\* start_monitoring
RunMonitor ==
    /\ entry = "none"
    /\ entry' = "run_monitor"
    /\ display_pc' = "start_monitoring"
    /\ UNCHANGED <<main_pc, files_pc, processes_pc, monitoring, api_calls,
                   estimated_cost, processed_files, monitor_log, output_dir,
                   logs_dir, pipeline_pc, pipeline_stem, stopped,
                   rounds_after_stop>>
    /\ UNCHANGED <<flowVars, trackerVars, cleanVars, kickoffVars, toolVars, usageVars>>

\* run_with_monitoring, lines 76-81: the thread that will call
\* start_monitoring is started, and the main thread sleeps
RunWithMonitoring ==
    /\ entry = "none"
    /\ entry' = "run_with_monitoring"
    /\ display_pc' = "start_monitoring"
    /\ main_pc' = "sleep"
    /\ UNCHANGED <<files_pc, processes_pc, monitoring, api_calls,
                   estimated_cost, processed_files, monitor_log, output_dir,
                   logs_dir, pipeline_pc, pipeline_stem, stopped,
                   rounds_after_stop>>
    /\ UNCHANGED <<flowVars, trackerVars, cleanVars, kickoffVars, toolVars, usageVars>>

\* the guide creation process starts: from another terminal when the monitor
\* runs on its own, by run_guide_creation (run_with_monitoring.py, lines
\* 55-58 and 84) otherwise
PipelineStarts ==
    /\ pipeline_pc = "not started"
    /\ \/ entry = "run_monitor" /\ UNCHANGED main_pc
       \/ main_pc = "sleep" /\ main_pc' = "run_guide_creation"
    /\ \E stem \in GuideStems : pipeline_stem' = <<stem>>
    /\ pipeline_pc' = "outline"
    /\ UNCHANGED <<entry, display_pc, files_pc, processes_pc, monitoring,
                   api_calls, estimated_cost, processed_files, monitor_log,
                   output_dir, logs_dir, stopped, rounds_after_stop>>
    /\ UNCHANGED <<flowVars, trackerVars, cleanVars, kickoffVars, toolVars, usageVars>>

\* main.py, lines 210-211 and 300-301: the outline, then the guide, is
\* written under output/
PipelineWritesOutput ==
    /\ pipeline_pc \in {"outline", "guide"}
    /\ output_dir' =
          IF pipeline_pc = "outline"
          THEN DictSet(output_dir, OutlineName(pipeline_stem[1]), "outline")
          ELSE DictSet(output_dir, GuideName(pipeline_stem[1]), "guide")
    /\ pipeline_pc' = IF pipeline_pc = "outline" THEN "guide" ELSE "open metrics"
    /\ UNCHANGED <<entry, main_pc, display_pc, files_pc, processes_pc,
                   monitoring, api_calls, estimated_cost, processed_files,
                   monitor_log, logs_dir, pipeline_stem, stopped,
                   rounds_after_stop>>
    /\ UNCHANGED <<flowVars, trackerVars, cleanVars, kickoffVars, toolVars, usageVars>>

\* tracking_tools.py, line 91, and main.py, line 309: open(..., 'w') creates
\* the metrics file, later the cost estimate file, with nothing in it
PipelineOpensLog ==
    /\ pipeline_pc \in {"open metrics", "open cost"}
    /\ logs_dir' =
          IF pipeline_pc = "open metrics"
          THEN DictSet(logs_dir, MetricsName(pipeline_stem[1]), EmptyFile)
          ELSE DictSet(logs_dir, CostName(pipeline_stem[1]), EmptyFile)
    /\ pipeline_pc' =
          IF pipeline_pc = "open metrics" THEN "dump metrics" ELSE "dump cost"
    /\ UNCHANGED <<entry, main_pc, display_pc, files_pc, processes_pc,
                   monitoring, api_calls, estimated_cost, processed_files,
                   monitor_log, output_dir, pipeline_stem, stopped,
                   rounds_after_stop>>
    /\ UNCHANGED <<flowVars, trackerVars, cleanVars, kickoffVars, toolVars, usageVars>>

\* tracking_tools.py, line 92, and main.py, line 310: json.dump and the end
\* of the with block
PipelineDumpsLog ==
    /\ pipeline_pc \in {"dump metrics", "dump cost"}
    /\ \E calls \in 1..(MaxSections + 1) :
          logs_dir' =
              IF pipeline_pc = "dump metrics"
              THEN DictSet(logs_dir, MetricsName(pipeline_stem[1]),
                           JsonFile(MetricsOfARun))
              ELSE DictSet(logs_dir, CostName(pipeline_stem[1]),
                           JsonFile(CostOfARun(calls)))
    /\ pipeline_pc' =
          IF pipeline_pc = "dump metrics" THEN "open cost" ELSE "return"
    /\ UNCHANGED <<entry, main_pc, display_pc, files_pc, processes_pc,
                   monitoring, api_calls, estimated_cost, processed_files,
                   monitor_log, output_dir, pipeline_stem, stopped,
                   rounds_after_stop>>
    /\ UNCHANGED <<flowVars, trackerVars, cleanVars, kickoffVars, toolVars, usageVars>>

\* the process ends: the flow has returned, or an external call has raised
\* before the outline or before the guide was written
PipelineExits ==
    /\ pipeline_pc \in {"outline", "guide", "return"}
    /\ pipeline_pc' = "exited"
    /\ UNCHANGED <<entry, main_pc, display_pc, files_pc, processes_pc,
                   monitoring, api_calls, estimated_cost, processed_files,
                   monitor_log, output_dir, logs_dir, pipeline_stem, stopped,
                   rounds_after_stop>>
    /\ UNCHANGED <<flowVars, trackerVars, cleanVars, kickoffVars, toolVars, usageVars>>

\* start_monitoring, lines 31-40: the flag is set and the two polling
\* threads are started
StartMonitoring ==
    /\ display_pc = "start_monitoring"
    /\ monitoring' = TRUE
    /\ files_pc' = "setup"
    /\ processes_pc' = "test"
    /\ display_pc' = "test"
    /\ UNCHANGED <<entry, main_pc, api_calls, estimated_cost, processed_files,
                   monitor_log, output_dir, logs_dir, pipeline_pc,
                   pipeline_stem, stopped, rounds_after_stop>>
    /\ UNCHANGED <<flowVars, trackerVars, cleanVars, kickoffVars, toolVars, usageVars>>

\* start_monitoring, line 43: while self.monitoring
DisplayTest ==
    /\ display_pc = "test"
    /\ display_pc' = IF monitoring THEN "body" ELSE "returned"
    /\ UNCHANGED <<entry, main_pc, files_pc, processes_pc, monitoring,
                   api_calls, estimated_cost, processed_files, monitor_log,
                   output_dir, logs_dir, pipeline_pc, pipeline_stem, stopped,
                   rounds_after_stop>>
    /\ UNCHANGED <<flowVars, trackerVars, cleanVars, kickoffVars, toolVars, usageVars>>

\* start_monitoring, lines 44-45: the display is redrawn and the thread
\* sleeps
DisplayBody ==
    /\ display_pc = "body"
    /\ display_pc' = "test"
    /\ rounds_after_stop' = RoundsAfter("display")
    /\ UNCHANGED <<entry, main_pc, files_pc, processes_pc, monitoring,
                   api_calls, estimated_cost, processed_files, monitor_log,
                   output_dir, logs_dir, pipeline_pc, pipeline_stem, stopped>>
    /\ UNCHANGED <<flowVars, trackerVars, cleanVars, kickoffVars, toolVars, usageVars>>

\* stop_monitoring, lines 49-56
StopMonitoring ==
    /\ monitoring' = FALSE
    /\ stopped' = TRUE

\* start_monitoring, lines 46-47: Ctrl+C in the loop of a monitor that runs
\* on its own
KeyboardInterrupt ==
    /\ entry = "run_monitor"
    /\ display_pc \in {"test", "body"}
    /\ StopMonitoring
    /\ display_pc' = "returned"
    /\ UNCHANGED <<entry, main_pc, files_pc, processes_pc, api_calls,
                   estimated_cost, processed_files, monitor_log, output_dir,
                   logs_dir, pipeline_pc, pipeline_stem, rounds_after_stop>>
    /\ UNCHANGED <<flowVars, trackerVars, cleanVars, kickoffVars, toolVars, usageVars>>

\* run_with_monitoring, lines 84-87: run_guide_creation returns when the
\* process has ended, and the main thread calls stop_monitoring
MainStops ==
    /\ main_pc = "run_guide_creation"
    /\ pipeline_pc = "exited"
    /\ StopMonitoring
    /\ main_pc' = "returned"
    /\ UNCHANGED <<entry, display_pc, files_pc, processes_pc, api_calls,
                   estimated_cost, processed_files, monitor_log, output_dir,
                   logs_dir, pipeline_pc, pipeline_stem, rounds_after_stop>>
    /\ UNCHANGED <<flowVars, trackerVars, cleanVars, kickoffVars, toolVars, usageVars>>

\* _monitor_files, lines 60-68
FilesSetup ==
    /\ files_pc = "setup"
    /\ processed_files' = {}
    /\ files_pc' = "test"
    /\ UNCHANGED <<entry, main_pc, display_pc, processes_pc, monitoring,
                   api_calls, estimated_cost, monitor_log, output_dir,
                   logs_dir, pipeline_pc, pipeline_stem, stopped,
                   rounds_after_stop>>
    /\ UNCHANGED <<flowVars, trackerVars, cleanVars, kickoffVars, toolVars, usageVars>>

\* _monitor_files, line 70: while self.monitoring
FilesTest ==
    /\ files_pc = "test"
    /\ files_pc' = IF monitoring THEN "body" ELSE "returned"
    /\ UNCHANGED <<entry, main_pc, display_pc, processes_pc, monitoring,
                   api_calls, estimated_cost, processed_files, monitor_log,
                   output_dir, logs_dir, pipeline_pc, pipeline_stem, stopped,
                   rounds_after_stop>>
    /\ UNCHANGED <<flowVars, trackerVars, cleanVars, kickoffVars, toolVars, usageVars>>

\* the monitor log after "New output file" was logged for every name of names
LogOutputFiles(log, names) ==
    [name \in DOMAIN log \cup names |->
        DictGet(log, name, 0) + (IF name \in names THEN 1 ELSE 0)]

\* _analyze_metrics_file, lines 108-118: the file is one json.load accepts
\* and its data has the key total_api_calls
HasApiCalls(content) ==
    content.json /\ "total_api_calls" \in DOMAIN content.value

\* _monitor_files, lines 72-84: one scan of the two directories
FilesBody ==
    /\ files_pc = "body"
    /\ LET new_output == DOMAIN output_dir \ processed_files
           after_output == processed_files \cup new_output
           new_logs == {name \in DOMAIN logs_dir :
                           /\ IsJsonName(name)
                           /\ name \notin after_output
                           /\ HasMetrics(name)}
           updating == {name \in new_logs : HasApiCalls(logs_dir[name])}
       IN  /\ processed_files' = after_output \cup new_logs
           /\ IF updating = {}
              THEN /\ monitor_log' =
                         [monitor_log EXCEPT
                             !.output = LogOutputFiles(@, new_output)]
                   /\ UNCHANGED <<api_calls, estimated_cost>>
              ELSE \E last \in updating :
                      LET data == logs_dir[last].value
                      IN  /\ api_calls' = data.total_api_calls
                          /\ estimated_cost' =
                                 IF "total_estimated_cost" \in DOMAIN data
                                 THEN data.total_estimated_cost
                                 ELSE 0
                          /\ monitor_log' =
                                 [monitor_log EXCEPT
                                     !.output = LogOutputFiles(@, new_output),
                                     !.metrics =
                                         Append(@, <<data.total_api_calls,
                                                     estimated_cost'>>)]
    /\ files_pc' = "test"
    /\ rounds_after_stop' = RoundsAfter("files")
    /\ UNCHANGED <<entry, main_pc, display_pc, processes_pc, monitoring,
                   output_dir, logs_dir, pipeline_pc, pipeline_stem, stopped>>
    /\ UNCHANGED <<flowVars, trackerVars, cleanVars, kickoffVars, toolVars, usageVars>>

\* _monitor_processes, line 88: while self.monitoring
ProcessesTest ==
    /\ processes_pc = "test"
    /\ processes_pc' = IF monitoring THEN "body" ELSE "returned"
    /\ UNCHANGED <<entry, main_pc, display_pc, files_pc, monitoring,
                   api_calls, estimated_cost, processed_files, monitor_log,
                   output_dir, logs_dir, pipeline_pc, pipeline_stem, stopped,
                   rounds_after_stop>>
    /\ UNCHANGED <<flowVars, trackerVars, cleanVars, kickoffVars, toolVars, usageVars>>

\* _monitor_processes, lines 89-104: pgrep finds processes or finds none
ProcessesBody ==
    /\ processes_pc = "body"
    /\ \E found \in BOOLEAN :
          monitor_log' =
              [monitor_log EXCEPT !.processes = @ \/ found]
    /\ processes_pc' = "test"
    /\ rounds_after_stop' = RoundsAfter("processes")
    /\ UNCHANGED <<entry, main_pc, display_pc, files_pc, monitoring,
                   api_calls, estimated_cost, processed_files, output_dir,
                   logs_dir, pipeline_pc, pipeline_stem, stopped>>
    /\ UNCHANGED <<flowVars, trackerVars, cleanVars, kickoffVars, toolVars, usageVars>>

\* the steps of the guide creation process
PipelineNext ==
    \/ PipelineStarts
    \/ PipelineWritesOutput
    \/ PipelineOpensLog
    \/ PipelineDumpsLog
    \/ PipelineExits

\* the steps of the thread that runs start_monitoring
DisplayNext == StartMonitoring \/ DisplayTest \/ DisplayBody

\* the steps of the thread that runs _monitor_files
FilesNext == FilesSetup \/ FilesTest \/ FilesBody

\* the steps of the thread that runs _monitor_processes
ProcessesNext == ProcessesTest \/ ProcessesBody

MonitorNext ==
    \/ RunMonitor
    \/ RunWithMonitoring
    \/ PipelineNext
    \/ DisplayNext
    \/ FilesNext
    \/ ProcessesNext
    \/ KeyboardInterrupt
    \/ MainStops

(***************************************************************************)
(* The usage report (check_openai_usage.py)                                *)
(***************************************************************************)
UsageInit ==
    /\ usage_logs = None
    /\ local_data = None
    /\ report_pc = "start"

\* the names the report can find under logs/: the cost estimate files of two
\* runs and the metrics file of one
UsageFileNames ==
    {CostName(stem) : stem \in GuideStems}
        \cup {MetricsName(Timestamp(<<"A", "!", SP, "a">>, "beginner"))}

\* what a file of that name can hold: the estimate of a run, nothing (the
\* run was cut off between open and json.dump), or an empty JSON object
UsageContents(name) ==
    IF name \in {CostName(stem) : stem \in GuideStems}
    THEN {JsonFile(CostOfARun(calls)) : calls \in 1..(MaxSections + 1)}
             \cup {EmptyFile, JsonFile(EmptyDict)}
    ELSE {JsonFile(MetricsOfARun)}

\* file.endswith("_cost_estimate.json"), line 75
IsCostEstimateName(name) ==
    /\ Len(name) >= 3
    /\ SubSeq(name, Len(name) - 2, Len(name)) = <<"_cost_estimate", ".", "json">>

\* dict.get(key, 0)
GetOrZero(data, key) == IF key \in DOMAIN data THEN data[key] ELSE 0

\* lines 79-86: the sum of data.get(key, 0) over the files json.load accepts
RECURSIVE SumOverFiles(_, _, _)
SumOverFiles(dir, names, key) ==
    IF names = {} THEN 0
    ELSE LET name == CHOOSE n \in names : TRUE
         IN  (IF dir[name].json THEN GetOrZero(dir[name].value, key) ELSE 0)
             + SumOverFiles(dir, names \ {name}, key)

\* estimate_costs_from_logs, lines 64-92; logs is None when the directory
\* does not exist
estimate_costs_from_logs(logs) ==
    IF logs = None
    THEN [total_cost |-> 0, total_calls |-> 0]
    ELSE LET dir == logs[1]
             cost_files == {name \in DOMAIN dir : IsCostEstimateName(name)}
         IN  [ total_estimated_cost |->
                   SumOverFiles(dir, cost_files, "total_estimated_cost"),
               total_api_calls |->
                   SumOverFiles(dir, cost_files, "total_api_calls"),
               cost_files_found |-> Cardinality(cost_files) ]

\* the keys display_usage_report reads, lines 136-138
ReportKeys == {"total_api_calls", "total_estimated_cost", "cost_files_found"}

\* os.makedirs("logs") of a first run or of the monitor
MakeLogsDir ==
    /\ report_pc = "start"
    /\ usage_logs = None
    /\ usage_logs' = <<EmptyDict>>
    /\ UNCHANGED <<local_data, report_pc>>
    /\ UNCHANGED <<flowVars, trackerVars, cleanVars, kickoffVars, toolVars, monitorVars>>

\* a run leaves a file under logs/
AddLogFile ==
    /\ report_pc = "start"
    /\ usage_logs # None
    /\ \E name \in UsageFileNames :
          \E content \in UsageContents(name) :
              usage_logs' = <<DictSet(usage_logs[1], name, content)>>
    /\ UNCHANGED <<local_data, report_pc>>
    /\ UNCHANGED <<flowVars, trackerVars, cleanVars, kickoffVars, toolVars, monitorVars>>

\* display_usage_report, lines 119-160: the three values are read from what
\* estimate_costs_from_logs returned; a missing key raises KeyError
DisplayUsageReport ==
    /\ report_pc = "start"
    /\ local_data' = estimate_costs_from_logs(usage_logs)
    /\ report_pc' =
          IF ReportKeys \subseteq DOMAIN local_data' THEN "printed"
          ELSE "KeyError"
    /\ UNCHANGED usage_logs
    /\ UNCHANGED <<flowVars, trackerVars, cleanVars, kickoffVars, toolVars, monitorVars>>

UsageNext == MakeLogsDir \/ AddLogFile \/ DisplayUsageReport

Init ==
    /\ FlowInit /\ TrackerInit /\ CleanInit /\ KickoffInit /\ ToolInit
    /\ MonitorInit /\ UsageInit

Next ==
    \/ SetupPhoenix
    \/ GetTopic
    \/ AudienceRejected
    \/ AudienceAccepted
    \/ CallOutlineLlm
    \/ LlmRaises
    \/ OutlineMalformed
    \/ OutlineParsed
    \/ EnterWriteAndCompile
    \/ KickoffCrew
    \/ CrewRaises
    \/ CrewReturns
    \/ CompileGuide
    \/ KickoffFinally

Spec == Init /\ [][Next]_vars

CleanSpec == Init /\ [][CleanNext]_vars

LineSpec == Init /\ [][LineNext]_vars

FilenameSpec == Init /\ [][FilenameNext]_vars

EstimatorSpec == Init /\ [][EstimatorNext]_vars

TrackerSpec == Init /\ [][TrackerNext]_vars

MonitorSpec == Init /\ [][MonitorNext]_vars

\* the threads of the monitor and the guide creation process are scheduled
\* again and again and their sleeps return; nobody has to press Ctrl+C
MonitorFairSpec ==
    /\ MonitorSpec
    /\ WF_vars(PipelineNext)
    /\ WF_vars(DisplayNext)
    /\ WF_vars(FilesNext)
    /\ WF_vars(ProcessesNext)
    /\ WF_vars(MainStops)

UsageSpec == Init /\ [][UsageNext]_vars

(***************************************************************************)
(* The claims                                                              *)
(***************************************************************************)
\* the titles of the outline, none while there is no outline
OutlineTitles ==
    IF guide_outline = None THEN {}
    ELSE {guide_outline.sections[k].title :
             k \in 1..Len(guide_outline.sections)}

\* the guide files among the files written
GuideFiles ==
    {p \in DOMAIN files : p[1] = "output/" /\ p[Len(p)] = "md"}

\* the cleaned results of the crew, each followed by a blank line
RECURSIVE CleanedBlocks(_)
CleanedBlocks(raws) ==
    IF raws = <<>> THEN <<>>
    ELSE clean_section_content(raws[1]) \o <<NL, NL>>
         \o CleanedBlocks(Tail(raws))

\* C1: the guide written holds, between the introduction and the
\* conclusion, the cleaned content produced for the first outline section,
\* then that produced for the second, and so on: every section once, in
\* the order of the outline.
C1_EverySectionOnceInOrder ==
    pc = "done" =>
        files[GuidePath(topic, audience_level)] =
            GuideHead(guide_outline) \o CleanedBlocks(crew_results)
            \o GuideTail(guide_outline)

\* C2: the keys of sections_content are titles of sections of the outline,
\* and there are none while there is no outline.
C2_KeysAreOutlineTitles == DOMAIN sections_content \subseteq OutlineTitles

\* C2 witness: in the middle of the loop one of two titles is stored
C2_Witness ==
    /\ Cardinality(DOMAIN sections_content) = 1
    /\ Cardinality(OutlineTitles) = 2

StageOrder ==
    <<"get_user_input", "create_guide_outline", "write_and_compile_guide">>

\* the number of methods the run must have started to be at pc
StagesStartedAt(place) ==
    IF place = "get_user_input" THEN {0}
    ELSE IF place \in {"audience_prompt", "create_guide_outline"} THEN {1}
    ELSE IF place \in {"llm_call", "write_and_compile_guide"} THEN {2}
    ELSE IF place \in {"section_loop", "crew_call", "done"} THEN {3}
    ELSE {2, 3}

\* C3: the methods run in the order get_user_input, create_guide_outline,
\* write_and_compile_guide, each at most once and none before the one
\* ahead of it has finished; a run that completes returns a message that
\* contains the path of the guide file it wrote.
C3_StagesInOrderAndResultNamesGuide ==
    /\ Len(executed) <= Len(StageOrder)
    /\ executed = SubSeq(StageOrder, 1, Len(executed))
    /\ Len(executed) \in StagesStartedAt(pc)
    /\ (result # None) = (pc = "done")
    /\ pc = "done" =>
          /\ executed = StageOrder
          /\ \E p \in GuideFiles : Contains(result, p)

\* C3 witness: a run that completed, after an answer was rejected
C3_Witness == pc = "done" /\ reprompts > 0 /\ topic # <<>>

\* C4: a guide file exists only once the crew has returned for every
\* section of the outline and every result is stored; a crew call that
\* raises ends the run at once: it is the last call, no call was made
\* twice for a section, and no guide file is written.
C4_GuideOnlyAfterEverySection ==
    /\ GuideFiles # {} =>
          /\ error = NoError
          /\ guide_outline # None
          /\ Len(crew_results) = Len(guide_outline.sections)
          /\ Len(crew_kickoffs) = Len(guide_outline.sections)
          /\ OutlineTitles \subseteq DOMAIN sections_content
    /\ error # NoError => pc = "aborted" /\ GuideFiles = {} /\ result = None
    /\ (error = "ExternalCallFailure" /\ crew_inputs # None) =>
          /\ Len(crew_kickoffs) = Len(crew_results) + 1
          /\ \A k \in 1..Len(crew_kickoffs) :
                crew_kickoffs[k].section_title =
                    guide_outline.sections[k].title
          /\ Len(completed_sections) = Len(crew_results)

\* C4 witness: the crew raised on the second section
C4_Witness ==
    /\ pc = "aborted"
    /\ crew_inputs # None
    /\ Len(crew_results) = 1
    /\ DOMAIN sections_content # {}

\* C5: there is never more than one outline call, and a response that is
\* not JSON or does not have the shape of a GuideOutline ends the run, with
\* no second call, no outline, no section generated and no file written.
C5_OneOutlineCallMalformedIsFatal ==
    /\ llm_calls <= 1
    /\ Len(executed) >= 2 => llm_calls = 1
    /\ (llm_response # None /\ ~OutlineParses(llm_response)) =>
          /\ error = "MalformedOutline"
          /\ pc = "aborted"
          /\ guide_outline = None
          /\ crew_kickoffs = <<>>
          /\ DOMAIN sections_content = {}
          /\ DOMAIN files = {}
    /\ guide_outline # None => OutlineParses(llm_response)

\* C5 witness: the response was JSON of the wrong shape
C5_Witness ==
    /\ error = "MalformedOutline"
    /\ llm_response.json
    /\ "title" \in DOMAIN llm_response.value

\* the context the claim describes for section i: the title and the stored
\* body of the sections 1..i-1 of the outline, in the order of the outline
RECURSIVE StoredBlocks(_, _)
StoredBlocks(from, to) ==
    IF from > to THEN <<>>
    ELSE <<HASH, HASH, SP, guide_outline.sections[from].title, NL, NL>>
         \o sections_content[guide_outline.sections[from].title]
         \o <<NL, NL>>
         \o StoredBlocks(from + 1, to)

ExpectedContext(i) ==
    IF i = 1 THEN <<"No previous sections written yet.">>
    ELSE <<HASH, SP, "Previously Written Sections", NL, NL>>
         \o StoredBlocks(1, i - 1)

C7_AudienceLevelIsOneOfThree ==
    LET levels == {"beginner", "intermediate", "advanced"}
        n == Len(audience_inputs)
    IN  /\ Len(executed) <= 1 => error = NoError
        /\ pc \in {"get_user_input", "audience_prompt"} =>
              /\ reprompts = n
              /\ \A k \in 1..n : Lower(audience_inputs[k]) \notin levels
        /\ pc \notin {"get_user_input", "audience_prompt"} =>
              /\ audience_level \in levels
              /\ n = reprompts + 1
              /\ audience_level = Lower(audience_inputs[n])
              /\ \A k \in 1..(n - 1) : Lower(audience_inputs[k]) \notin levels

\* C7 witness: the stage was left after answers that were rejected
C7_Witness ==
    /\ pc = "create_guide_outline"
    /\ reprompts >= 2
    /\ audience_inputs[1] = "expert"
    /\ audience_inputs[2] = ""

\* C8: when the outline call is made the topic is not empty.
C8_TopicNotEmptyAtOutlineCall == pc = "llm_call" => topic # <<>>

\* C9: cleaning a text that was cleaned changes nothing.
C9_CleanIsIdempotent == cl_pc = "recleaned" => cl_out2 = cl_out

\* a line that, trimmed and with case folded, one of the seven patterns
\* matches: among the tokens of the model, a line that starts with one of
\* the seven sentences
IsMetaLine(line) ==
    /\ Strip(line) # <<>>
    /\ Strip(line)[1] \in MetaSentences

\* C10: no line of the cleaned text is a meta-comment line; the sentence
\* "This guide section maintains consistency..." never survives as a line.
C10_NoMetaCommentLineSurvives ==
    cl_pc # "input" =>
        LET lines == SplitLines(cl_out, 1, <<>>)
        IN  \A k \in 1..Len(lines) : ~IsMetaLine(lines[k])

\* C10 witness: the raw text had the sentence on a line, indented, and
\* another line that stays
C10_Witness ==
    /\ cl_pc = "cleaned"
    /\ cl_in = <<WORD, NL, SP, META_MAINTAINS>>
    /\ cl_out = <<WORD>>

\* a line that is empty or made of whitespace
IsBlankLine(line) == Strip(line) = <<>>

\* C11: the cleaned text never has two blank lines in a row, a blank line
\* being empty or made of whitespace, and it neither starts nor ends with
\* whitespace.
C11_NoBlankRunNoOuterWhitespace ==
    cl_pc # "input" =>
        LET lines == SplitLines(cl_out, 1, <<>>)
        IN  /\ \A k \in 1..(Len(lines) - 1) :
                  ~(IsBlankLine(lines[k]) /\ IsBlankLine(lines[k + 1]))
            /\ cl_out # <<>> =>
                  ~IsSpace(cl_out[1]) /\ ~IsSpace(cl_out[Len(cl_out)])

\* C11 witness: two blank lines between two lines of text became one, and
\* the whitespace around the text is gone
C11_Witness ==
    /\ cl_pc = "cleaned"
    /\ cl_in = <<SP, WORD, NL, NL, NL, WORD>>
    /\ cl_out = <<WORD, NL, NL, WORD>>

\* the characters a to z, 0 to 9 and the hyphen, among those of the model
SlugChars == {"a", "1", "-"}

\* the slug of a filename: what stands before -<audience>-guide.<ext>
SlugOf(name) == SubSeq(name, 1, Len(name) - 5)

\* C12: the name create_filename returns is <slug>-<audience>-guide.<ext>,
\* the slug is made of the characters a to z, 0 to 9 and the hyphen only,
\* and it is at most 50 characters long.
C12_SlugIsLowerAsciiAndShort ==
    fn_name # <<>> =>
        /\ Len(fn_name) >= 5
        /\ fn_name =
              SlugOf(fn_name) \o <<"-", fn_audience, "-guide", ".", fn_extension>>
        /\ \A k \in 1..Len(SlugOf(fn_name)) : SlugOf(fn_name)[k] \in SlugChars
        /\ Len(SlugOf(fn_name)) <= 50

\* the whole number of times 4 goes into n, said without division
FloorOfQuarter(n) == CHOOSE q \in 0..n : 4 * q <= n /\ n < 4 * q + 4

C14_UnknownModelCostsNothing ==
    (est_call # None /\ est_call.model \notin {"gpt_4o", "gpt_4o_mini"}) =>
        /\ est_return = <<0>>
        /\ total_estimated_cost = est_call.cost_before
        /\ call_count = est_call.count_before

\* C14 witness: a call with an unknown model and long texts, after calls
\* that were counted
C14_Witness ==
    /\ est_call # None
    /\ est_call.model = "gpt_3_5_turbo"
    /\ est_call.input_len = 4000
    /\ est_call.output_len = 4003
    /\ est_call.count_before = 2
    /\ total_estimated_cost > 0

\* C15: total_estimated_cost and call_count never decrease: no call of
\* estimate_call_cost lowers them and what an earlier get_total_estimate
\* reported is never more than they are now; the snapshot reports an
\* average that is its total divided by its number of calls when that
\* number is positive, and 0 when it is 0.
C15_TotalsGrowAndAverageIsTheMean ==
    /\ est_call # None =>
          /\ total_estimated_cost >= est_call.cost_before
          /\ call_count >= est_call.count_before
    /\ est_snapshot # None =>
          LET average == est_snapshot.average_cost_per_call
          IN  /\ est_snapshot.total_estimated_cost <= total_estimated_cost
              /\ est_snapshot.total_api_calls <= call_count
              /\ average[2] > 0
              /\ est_snapshot.total_api_calls > 0 =>
                    average[1] * est_snapshot.total_api_calls =
                        est_snapshot.total_estimated_cost * average[2]
              /\ est_snapshot.total_api_calls = 0 => average[1] = 0

\* C15 witness: a snapshot of two calls that cost something, and a call
\* made after it
C15_Witness ==
    /\ est_snapshot # None
    /\ est_snapshot.total_api_calls = 2
    /\ est_snapshot.total_estimated_cost > 0
    /\ call_count = 3
    /\ total_estimated_cost > est_snapshot.total_estimated_cost

\* the calls of end_step that come right after a call of start_step: the
\* calls that find a step open
ClosingCalls ==
    {k \in 2..Len(tracker_log) :
        /\ tracker_log[k].op = "end_step"
        /\ tracker_log[k - 1].op = "start_step"}

\* C16: the tracker holds at most one start marker, that of the most
\* recent start_step when no end_step has followed it and none otherwise;
\* an end_step that finds a step open appends exactly one record, with the
\* name and the size it was given and the time since the most recent
\* start_step, whatever was started before that one, and an end_step that
\* finds no step open appends nothing.
C16_OneMarkerClosedByTheNextEnd ==
    LET n == Len(tracker_log)
    IN  /\ current_step_start =
              IF n > 0 /\ tracker_log[n].op = "start_step"
              THEN <<tracker_log[n].at>>
              ELSE None
        /\ Len(steps) = Cardinality(ClosingCalls)
        /\ \A k \in ClosingCalls :
              LET j == Cardinality({i \in ClosingCalls : i <= k})
              IN  steps[j] =
                      [ name |-> tracker_log[k].step_name,
                        duration |-> tracker_log[k].at - tracker_log[k - 1].at,
                        result_size |-> tracker_log[k].result_size ]

\* C16 witness: a step was started, a second one later while the first was
\* open, and the end_step after that, under another name, made the one
\* record, with the time since the second start
C16_Witness ==
    /\ Len(tracker_log) = 3
    /\ tracker_log[1].op = "start_step"
    /\ tracker_log[2].op = "start_step"
    /\ tracker_log[2].at > tracker_log[1].at
    /\ tracker_log[3].op = "end_step"
    /\ tracker_log[3].at > tracker_log[2].at
    /\ tracker_log[3].step_name # tracker_log[2].step_name
    /\ Len(steps) = 1
    /\ steps[1].duration = tracker_log[3].at - tracker_log[2].at
    /\ current_step_start = None

\* C17: setup_phoenix_observability returns False, and raises nothing, when
\* there is no API key and when the registration raises, and True when it
\* registers; whatever it returned the pipeline runs; kickoff ends only
\* when the pipeline has completed or aborted, and by then cleanup_phoenix
\* was called once if setup returned True and never if it returned False;
\* before that it was not called.
C17_SetupNeverFatalCleanupIffEnabled ==
    /\ (kickoff_pc = "setup") = (phoenix_setup = "not run")
    /\ kickoff_pc = "setup" => pc = "get_user_input" /\ phoenix_enabled = None
    /\ phoenix_setup \in {"no key", "registration raised"} =>
          phoenix_enabled = <<FALSE>>
    /\ phoenix_setup = "registered" => phoenix_enabled = <<TRUE>>
    /\ kickoff_pc \in {"setup", "flow"} => cleanup_calls = 0
    /\ kickoff_pc \in {"returned", "raised"} =>
          /\ executed # <<>>
          /\ cleanup_calls = IF phoenix_enabled = <<TRUE>> THEN 1 ELSE 0
    /\ kickoff_pc = "returned" => pc = "done" /\ error = NoError
    /\ kickoff_pc = "raised" => pc = "aborted" /\ error # NoError

\* C17 witness: the registration raised, the pipeline ran to its end all
\* the same, and kickoff returned without a call of cleanup_phoenix
C17_Witness ==
    /\ kickoff_pc = "returned"
    /\ phoenix_setup = "registration raised"
    /\ result # None
    /\ GuideFiles # {}
    /\ cleanup_calls = 0

\* the lines of a text that start with the tokens of pre
LinesStarting(text, pre) ==
    SelectSeq(SplitLines(text, 1, <<>>), LAMBDA line : HasPrefixAt(line, 1, pre))

\* the heading a fenced answer gives its section, as the guide is to show
\* it: the line after the opener, at level 2
SectionHeading(raw) ==
    LET heading == SplitLines(raw, 1, <<>>)[2]
    IN  IF HasPrefixAt(heading, 1, <<HASH, SP>>) THEN <<HASH>> \o heading
        ELSE heading

\* C18: when every section generator answered with markdown wrapped in a
\* code fence, the guide written has one level 1 line, its title; its
\* level 2 lines are "## Introduction", then the heading of each section
\* of the outline in the order of the outline, then "## Conclusion"; and
\* no line of it holds a fence marker.
C18_GuideOfFencedSectionsIsWellFormed ==
    ( /\ pc = "done"
      /\ \A k \in 1..Len(crew_results) : crew_results[k] \in FencedResults ) =>
        LET guide == files[GuidePath(topic, audience_level)]
        IN  /\ LinesStarting(guide, <<HASH, SP>>) =
                  << <<HASH, SP, guide_outline.title>> >>
            /\ LinesStarting(guide, <<HASH, HASH, SP>>) =
                  << <<HASH, HASH, SP, "Introduction">> >>
                  \o [k \in 1..Len(crew_results) |->
                         SectionHeading(crew_results[k])]
                  \o << <<HASH, HASH, SP, "Conclusion">> >>
            /\ \A k \in 1..Len(guide) : guide[k] # FENCE

\* a line that opens a fence: it starts with three backticks, with or
\* without a tag after them
IsFenceOpener(line) == line # <<>> /\ line[1] = FENCE

\* a line that closes a fence: it starts with three backticks and has
\* nothing else but whitespace
IsFenceCloser(line) == IsFenceOpener(line) /\ Strip(line) = <<FENCE>>

\* the positions of the lines of a text that are not blank
NonBlankLines(lines) == {k \in 1..Len(lines) : ~IsBlankLine(lines[k])}

\* the least and the greatest member of a set of numbers that is not empty
Least(S) == CHOOSE k \in S : \A j \in S : k <= j
Greatest(S) == CHOOSE k \in S : \A j \in S : j <= k

\* the lines the claim says stay, trimmed, in their order: every line of the
\* raw text but the blank lines, the remarks, a fence opener that is the
\* first line with text and a fence closer that is the last
RECURSIVE LinesToStay(_, _)
LinesToStay(lines, k) ==
    IF k > Len(lines) THEN <<>>
    ELSE LET line == lines[k]
             text == NonBlankLines(lines)
             goes == \/ IsBlankLine(line)
                     \/ IsMetaLine(line)
                     \/ k = Least(text) /\ IsFenceOpener(line)
                     \/ k = Greatest(text) /\ IsFenceCloser(line)
         IN  (IF goes THEN <<>> ELSE <<Strip(line)>>)
             \o LinesToStay(lines, k + 1)

\* the first of the lines, if it is a level 1 heading, at level 2
WithFirstPromoted(lines) ==
    IF lines # <<>> /\ IsLevel1Heading(lines[1])
    THEN <<<<HASH>> \o lines[1]>> \o Tail(lines)
    ELSE lines

\* the lines of a text that are not blank, trimmed
TrimmedLines(text) ==
    LET lines == SplitLines(text, 1, <<>>)
        kept == SelectSeq(lines, LAMBDA line : ~IsBlankLine(line))
    IN  [k \in 1..Len(kept) |-> Strip(kept[k])]

\* the members of part stand in whole, in the order of part
RECURSIVE IsSubsequence(_, _)
IsSubsequence(part, whole) ==
    IF part = <<>> THEN TRUE
    ELSE IF whole = <<>> THEN FALSE
    ELSE IF part[1] = whole[1] THEN IsSubsequence(Tail(part), Tail(whole))
    ELSE IsSubsequence(part, Tail(whole))

\* C19: the cleaner takes away no fence line but an opener that leads the
\* text and a closer that ends it: every line of the raw text that is not
\* that opener, that closer, a remark or a blank line stands in the cleaned
\* text, in the order of the raw text (the first of them at level 2 if it
\* was a level 1 heading).
C19_InteriorFenceLinesStay ==
    cl_pc # "input" =>
        IsSubsequence(
            WithFirstPromoted(LinesToStay(SplitLines(cl_in, 1, <<>>), 1)),
            TrimmedLines(cl_out))

\* a line that starts with a single hash sign and a blank
StartsAtLevel1(line) == HasPrefixAt(line, 1, <<HASH, SP>>)

\* a line that starts with two hash signs and a blank
StartsAtLevel2(line) == HasPrefixAt(line, 1, <<HASH, HASH, SP>>)

\* the text as the heading step finds it: after the fences are stripped
\* and the remarks dropped, trimmed
BeforeHeadingStep(content) == Strip(DropMetaComments(StripFences(content)))

\* C20: the first line of the cleaned text is never a level 1 heading: a
\* first remaining line that starts with a single "# " comes out with one
\* more "#" in front, one that is at level 2 comes out as it is, and the
\* heading step changes no line but the first.
C20_FirstLineIsNeverLevel1 ==
    cl_pc # "input" =>
        LET found == SplitLines(BeforeHeadingStep(cl_in), 1, <<>>)
            fixed == SplitLines(FixHeading(BeforeHeadingStep(cl_in)), 1, <<>>)
            first == SplitLines(cl_out, 1, <<>>)[1]
        IN  /\ ~StartsAtLevel1(first)
            /\ StartsAtLevel1(found[1]) => first = <<HASH>> \o found[1]
            /\ StartsAtLevel2(found[1]) => first = found[1]
            /\ Tail(fixed) = Tail(found)

\* the names of the records of a list of steps, in order
StepNamesOf(recorded) == [k \in 1..Len(recorded) |-> recorded[k].name]

\* the three steps of the pipeline, in the order it starts and ends them
PipelineSteps ==
    << "User Input Collection", "Guide Outline Creation",
       "Content Generation and Compilation" >>

\* C21: the metrics file persisted by a successful run contains one record
\* for every step the pipeline started and ended in that run (User Input
\* Collection, Guide Outline Creation, Content Generation and Compilation),
\* and its total_steps equals that number
C21_MetricsFileHasEveryStep ==
    pc = "done" =>
        LET metrics == files[MetricsPath(topic, audience_level)]
        IN  /\ StepNamesOf(steps) = PipelineSteps
            /\ StepNamesOf(metrics.steps) = PipelineSteps
            /\ metrics.total_steps = Len(PipelineSteps)

\* the cost estimate file of the run is written: json.dump has filled it
CostFileWritten ==
    /\ pipeline_stem # None
    /\ CostName(pipeline_stem[1]) \in DOMAIN logs_dir
    /\ logs_dir[CostName(pipeline_stem[1])].json

\* the monitor shows the values of the cost estimate file of the run
SpendSurfaced ==
    /\ CostFileWritten
    /\ LET data == logs_dir[CostName(pipeline_stem[1])].value
       IN  /\ api_calls = data.total_api_calls
           /\ estimated_cost = data.total_estimated_cost

\* how often "New output file" was logged for a name
TimesLogged(name) == DictGet(monitor_log.output, name, 0)

\* while the monitor runs, a written cost estimate file is eventually shown
SpendIsEventuallySurfaced ==
    (monitoring /\ CostFileWritten) ~> (~monitoring \/ SpendSurfaced)

\* no file under output/ is logged twice, and while the monitor runs every
\* file under output/ is eventually logged
OutputFilesAreLoggedOnce ==
    /\ [](\A name \in DOMAIN monitor_log.output : TimesLogged(name) <= 1)
    /\ (monitoring /\ output_dir # EmptyDict)
          ~> (~monitoring
              \/ \A name \in DOMAIN output_dir : TimesLogged(name) = 1)

\* C22: while the monitor is running, after a pipeline run writes its cost
\* estimate file under logs/, the api_calls and estimated_cost of the monitor
\* eventually equal the total_api_calls and total_estimated_cost of that
\* file, and each newly written file under output/ is logged exactly once
C22_SpendSurfacedAndOutputLoggedOnce ==
    SpendIsEventuallySurfaced /\ OutputFilesAreLoggedOnce

\* C23: in run_with_monitoring, whatever the interleaving of the thread that
\* runs start_monitoring with the main thread, once stop_monitoring has
\* returned the monitoring flag is False and stays False, and the display
\* loop and the two polling loops each run at most one further round
C23_StoppedFlagStaysDownLoopsEnd ==
    (entry = "run_with_monitoring" /\ stopped) =>
        /\ ~monitoring
        /\ \A loop \in MonitorLoops : rounds_after_stop[loop] <= 1

\* the external generation calls that have returned so far: the outline call
\* and one crew call for every completed section
CallsReturned ==
    (IF llm_response # None THEN 1 ELSE 0) + Len(crew_results)

\* C24: in a pipeline run the call_count of the cost estimator equals the
\* number of external generation calls that have returned so far, the cost
\* estimate file of a successful run over an outline of n sections records
\* total_api_calls = n + 1, and the outline call is counted even when its
\* response is rejected as malformed
C24_CallCountIsCallsReturned ==
    /\ call_count = CallsReturned
    /\ Len(crew_results) = Len(completed_sections)
    /\ pc = "done" =>
          files[CostPath(topic, audience_level)].total_api_calls
              = Len(guide_outline.sections) + 1
    /\ error = "MalformedOutline" => call_count = 1

\* a successful run over an outline of two sections: three calls on file
C24_Witness ==
    /\ pc = "done"
    /\ Len(guide_outline.sections) = MaxSections
    /\ files[CostPath(topic, audience_level)].total_api_calls = MaxSections + 1

\* the cost estimate files under logs/ that json.load accepts
ParseableCostFiles ==
    {name \in DOMAIN usage_logs[1] :
        IsCostEstimateName(name) /\ usage_logs[1][name].json}

\* C25: for every state of the logs directory (missing, empty, with valid
\* cost files, with unparseable cost files) estimate_costs_from_logs returns
\* a mapping with the keys total_estimated_cost, total_api_calls and
\* cost_files_found that display_usage_report reads, the totals are the sums
\* over the parseable cost estimate files, and nothing is raised
C25_ReportKeysAlwaysReturned ==
    report_pc # "start" =>
        /\ ReportKeys \subseteq DOMAIN local_data
        /\ report_pc = "printed"
        /\ local_data.total_api_calls =
              (IF usage_logs = None THEN 0
               ELSE SumOverFiles(usage_logs[1], ParseableCostFiles,
                                 "total_api_calls"))
        /\ local_data.total_estimated_cost =
              (IF usage_logs = None THEN 0
               ELSE SumOverFiles(usage_logs[1], ParseableCostFiles,
                                 "total_estimated_cost"))

====
